---- MODULE Spec2Model ----
(***************************************************************************)
(* A model of the per-session interaction engine of xiaozhi-server-rs:     *)
(* handle_socket_inner (the Session Loop), the turn worker running         *)
(* process_text_logic, the standby task running trigger_tts_only, the      *)
(* recognition task and the Outbound Writer, connected by the bounded      *)
(* tokio channels of src/handlers/websocket.rs.                            *)
(*                                                                         *)
(* Time is counted in ticks of 50 ms.  idle_left is timeout_at - now       *)
(* (last_activity + max_idle_duration - now), sleep_left is what remains   *)
(* of the tokio::time::sleep created by the current loop iteration.        *)
(***************************************************************************)
EXTENDS Integers, Sequences, FiniteSets, TLC

\* ---------------------------------------------------------------- bounds
\* Channel capacities, scaled down from the code's 256 (outbound), 256 (PCM),
\* 32 (recognizer events), 16 (utterances) and 16 (control messages).
OutboundCap == 2
SttAudioCap == 1
SttEventCap == 1
LlmCap == 1
ControlCap == 1
\* max_idle_duration in ticks (configuration value).
MaxIdle == 2
\* How far past the idle deadline the model keeps counting.
MaxOver == 2
\* Entries of a device's history the model keeps (the most recent ones).
MaxHistory == 2
\* Frames one synthesized utterance may have.
MaxFrames == 1
\* tools/call requests issued in one session: enough for one call in each of
\* the MAX_LOOPS rounds of a turn.
MaxCalls == 5
\* tools/call requests issued in one session of a tool dialog.
DialogCalls == 2
\* Standby tasks spawned in one session.
MaxStandby == 2
PacedFrames == 4
\* The re-chunker's chunk size (512 samples in the source, scaled down).
ChunkSize == 3
\* Longest PCM chunk the input stream yields, and the samples it yields in all.
MaxChunkLen == 4
MaxSamples == 6
\* Messages added to the history stores, and how far the wall clock runs.
MaxStored == 3
MaxClock == 1
Quantum == 20

\* ------------------------------------------------------ program constants
\* The fallback sleep of 100 ms, two ticks.
MinSleep == 2
\* The sleep of 24 h used while Processing: it never expires within a model run.
Far == 99
\* MAX_LOOPS of process_text_logic.
MAX_LOOPS == 5
\* Capacity of the rpc channel.
RpcCap == 16
\* The requests of the discovery handshake (initialize and tools/list).
HandshakeRequests == 2

\* The ids a session with one handshake can assign.
Ids == 1..(HandshakeRequests + MaxCalls)

VARIABLES
    \* the Session Loop's frame
    loop_pc,                 \* "select" | "send_stt" | "send_llm" | "hello_mcp" | "done"
    state_enum,              \* "Listening" | "Processing"
    accumulated_text,        \* the transcript: "", " " (white space only) or "w"
    is_standby,
    idle_left,               \* timeout_at - now, in ticks, kept down to -MaxOver
    sleep_left,              \* remaining ticks of this iteration's sleep, or Far
    mcp_state,               \* "Disabled" | "Initializing" | "Ready"
    mcp_request_id_counter,
    pending_mcp_requests,    \* set of <<id, waiter>>
    mcp_tools,               \* TRUE iff the tool catalogue is non-empty
    ws_open,                 \* the socket receiver has not reached end-of-stream
    \* channels
    stt_audio,               \* number of PCM chunks queued to the recognizer
    stt_events,              \* recognizer events queued to the loop
    llm_q,                   \* utterances handed to the turn worker
    control_q,               \* LlmFinished / Sleep messages to the loop
    rpc_q,                   \* RpcCalls (waiter indices) to the loop
    out_q,                   \* the outbound queue
    \* tasks
    writer,                  \* "running" | "failed" | "aborting" | "aborted"
    stt_alive,
    turn,                    \* the turn worker's position and locals
    standby,                 \* the standby tasks' positions
    waiter,                  \* the one-shot reply slot of each tools/call
    \* the history store shared by the sessions of one device
    chat_history,            \* the device's most recent entries, oldest first
    peer,                    \* another session of the same device, in a text turn
    \* the services behind the session: the recognition bridge's re-chunker
    svc,                     \* and the two history stores
    \* history of the run
    hist

loopVars == <<loop_pc, state_enum, accumulated_text, is_standby, idle_left, sleep_left>>
mcpVars == <<mcp_state, mcp_request_id_counter, pending_mcp_requests, mcp_tools>>
chanVars == <<stt_audio, stt_events, llm_q, control_q, rpc_q, out_q>>
taskVars == <<writer, stt_alive, turn, standby, waiter>>
dbVars == <<chat_history, peer, svc>>
vars == <<loopVars, mcpVars, ws_open, chanVars, taskVars, dbVars, hist>>

\* Texts are kept up to what the code asks of them: "" is the empty string, " "
\* any non-empty string of white space, "w" any string with a visible character.
\* A recognized delta is " " or "w".
Words == {"w", " "}

\* String::is_empty and str::trim().is_empty().
IsEmpty(t) == t = ""
TrimIsEmpty(t) == t \in {"", " "}

\* accumulated_text.push_str(&text); accumulated_text.push(' ').
PushDelta(t, d) == IF t = "w" \/ d = "w" THEN "w" ELSE " "

Max(a, b) == IF a > b THEN a ELSE b

\* The receiving half of the outbound queue exists (the writer task holds it).
RxOpen == writer \in {"running", "aborting"}

\* tx.try_send(msg): the queue after send_nowait, and whether it accepted.
SendNowaitOk(q) == RxOpen /\ Len(q) < OutboundCap
Push(q, m) == IF SendNowaitOk(q) THEN Append(q, m) ELSE q

\* sleep_duration as computed at the top of a loop iteration.
SleepDuration(st, idle) ==
    IF st = "Processing" THEN Far
    ELSE IF idle > 0 THEN idle
    ELSE MinSleep

\* The turn worker's locals; kind, cut, saved and out record what the turn was
\* and did: the branch its answer took, whether a send of it failed, how many
\* history entries it wrote, what it enqueued.
IdleTurn == [pc |-> "idle", text |-> "", loop_count |-> 0, should_sleep |-> FALSE,
             frames |-> 0, calls |-> 0, w |-> 0, result |-> FALSE,
             kind |-> "none", cut |-> FALSE, saved |-> 0, out |-> <<>>, ext |-> <<>>,
             total_frames |-> 0, elapsed |-> 0, deadline |-> 0]

\* A reply slot: its state, the id its request got, how many values it received,
\* what completed it and, for a response, the id the response carried.
NoWaiter == [st |-> "unused", id |-> 0, n |-> 0, by |-> "none", rid |-> 0]

\* A standby task: its position in trigger_tts_only and the frames left to send.
NoStandby == [pc |-> "none", frames |-> 0]

\* What the run has seen: standby tasks spawned, a Close written to the socket,
\* the event (binary, ping, no_speech; dropped for a binary frame handled in
\* Processing) handled since the last tick with the idle deadline already
\* running, why the loop ended, an Abort with no TextDelta since, tools/call
\* requests issued, a client Hello handled, the id of the latest initialize
\* request, tools/list requests made, the ids given to the JSON-RPC requests
\* built so far, in the order they were built, the id of the latest tools/list
\* request.
InitHist == [spawned |-> 0, wire_close |-> FALSE, kept |-> "none",
             exit |-> "none", since_abort |-> FALSE, issued |-> 0,
             hello |-> FALSE, init_id |-> 0, lists |-> 0, ids |-> <<>>,
             list_id |-> 0]

\* The re-chunker before its input stream has yielded anything: an empty buffer
\* (input is the concatenation of the chunks taken so far, yielded the chunks
\* handed to the recognizer, in order).  Both history stores are empty (mem is
\* InMemoryDb's map, rows the SQL table chat_history, now the wall clock in
\* seconds, got the results of the last get_chat_history as each store
\* answers it).
InitSvc == [buffer |-> <<>>, input |-> <<>>, yielded |-> <<>>, ended |-> FALSE,
            mem |-> [d \in {"d1", "d2"} |-> <<>>], rows |-> <<>>, now |-> 0,
            got |-> [device_id |-> "none", limit |-> 0,
                     mem |-> [ok |-> TRUE, messages |-> <<>>],
                     sql |-> [ok |-> TRUE, messages |-> <<>>]]]

Init ==
    /\ loop_pc = "select"
    /\ state_enum = "Listening"
    /\ accumulated_text = ""
    /\ is_standby = FALSE
    /\ idle_left = MaxIdle
    /\ sleep_left = SleepDuration("Listening", MaxIdle)
    /\ mcp_state = "Disabled"
    /\ mcp_request_id_counter = 1
    /\ pending_mcp_requests = {}
    /\ mcp_tools = FALSE
    /\ ws_open = TRUE
    /\ stt_audio = 0
    /\ stt_events = <<>>
    /\ llm_q = <<>>
    /\ control_q = <<>>
    /\ rpc_q = <<>>
    /\ out_q = <<>>
    /\ writer = "running"
    /\ stt_alive \in BOOLEAN
    /\ turn = IdleTurn
    /\ standby = [i \in 1..MaxStandby |-> NoStandby]
    /\ waiter = [i \in 1..MaxCalls |-> NoWaiter]
    /\ chat_history = <<>>
    /\ peer = "idle"
    /\ svc = InitSvc
    /\ hist = InitHist

\* ------------------------------------------------------------ Session Loop

\* The loop is at tokio::select! and the event stream can yield a socket frame.
AtSelect == loop_pc = "select"
WsReady == AtSelect /\ ws_open

\* `break`, writer_handle.abort() and the return of handle_socket_inner: the
\* frame's locals are dropped, so every reply slot in the pending map or in a
\* queued RpcCall is released, and the control and rpc receivers are gone.
Release(ws) ==
    [i \in 1..MaxCalls |->
        IF ws[i].st \in {"queued", "pending"}
        THEN [ws[i] EXCEPT !.st = "closed", !.n = @ + 1, !.by = "teardown"]
        ELSE ws[i]]

\* A loop exit that leaves the reply slots as they are.
BreakLoop_KeepsWaiters(reason, q) ==
    /\ loop_pc' = "done"
    /\ writer' = IF writer = "running" THEN "aborting" ELSE writer
    /\ out_q' = q
    /\ pending_mcp_requests' = {}
    /\ rpc_q' = <<>>
    /\ control_q' = <<>>
    /\ stt_events' = <<>>
    /\ accumulated_text' = ""
    /\ hist' = [hist EXCEPT !.exit = reason]
    /\ UNCHANGED <<state_enum, is_standby, idle_left, sleep_left,
                   mcp_state, mcp_request_id_counter, mcp_tools, ws_open,
                   stt_audio, llm_q, stt_alive, turn, standby, waiter>>
    /\ UNCHANGED dbVars

BreakLoop(reason, q) ==
    /\ loop_pc' = "done"
    /\ writer' = IF writer = "running" THEN "aborting" ELSE writer
    /\ out_q' = q
    /\ pending_mcp_requests' = {}
    /\ rpc_q' = <<>>
    /\ control_q' = <<>>
    /\ stt_events' = <<>>
    /\ accumulated_text' = ""
    /\ waiter' = Release(waiter)
    /\ hist' = [hist EXCEPT !.exit = reason]
    /\ UNCHANGED <<state_enum, is_standby, idle_left, sleep_left,
                   mcp_state, mcp_request_id_counter, mcp_tools, ws_open,
                   stt_audio, llm_q, stt_alive, turn, standby>>
    /\ UNCHANGED dbVars

\* Message::Text: last_activity = now, is_standby = false, whatever the text holds.
TextSeen ==
    /\ idle_left' = MaxIdle
    /\ is_standby' = FALSE

\* A text frame that is no ClientMessage, an Iot message, or a Listen whose state
\* is neither "start" nor "stop".
WsTextOther ==
    /\ WsReady
    /\ TextSeen
    /\ sleep_left' = SleepDuration(state_enum, MaxIdle)
    /\ UNCHANGED <<loop_pc, state_enum, accumulated_text, mcpVars, ws_open, chanVars,
                   taskVars, hist>>
    /\ UNCHANGED dbVars

\* ClientMessage::Hello { features }: the server Hello by send_nowait; with
\* features.mcp the handler goes on to the initialize request.  The handler asks
\* for no earlier message and no earlier state.
WsHello(mcp) ==
    /\ WsReady
    /\ mcp => mcp_request_id_counter \in Ids
    /\ TextSeen
    /\ sleep_left' = SleepDuration(state_enum, MaxIdle)
    /\ out_q' = Push(out_q, "hello")
    /\ loop_pc' = IF mcp THEN "hello_mcp" ELSE "select"
    /\ hist' = [hist EXCEPT !.hello = TRUE]
    /\ UNCHANGED <<state_enum, accumulated_text, mcpVars, ws_open, stt_audio, stt_events,
                   llm_q, control_q, rpc_q, taskVars>>
    /\ UNCHANGED dbVars

\* The rest of the Hello handler with features.mcp: mcp_state = Initializing, the
\* next id, the initialize request by send_nowait.  The writer runs on its own
\* between the handler's two sends.
WsHelloInitialize ==
    /\ loop_pc = "hello_mcp"
    /\ loop_pc' = "select"
    /\ mcp_state' = "Initializing"
    /\ mcp_request_id_counter' = mcp_request_id_counter + 1
    /\ out_q' = Push(out_q, "initialize")
    /\ hist' = [hist EXCEPT !.init_id = mcp_request_id_counter,
                            !.ids = Append(@, mcp_request_id_counter)]
    /\ UNCHANGED <<state_enum, accumulated_text, is_standby, idle_left, sleep_left,
                   pending_mcp_requests, mcp_tools, ws_open, stt_audio, stt_events,
                   llm_q, control_q, rpc_q, taskVars>>
    /\ UNCHANGED dbVars

\* ClientMessage::Listen { state: "start" }.
WsListenStart ==
    /\ WsReady
    /\ TextSeen
    /\ state_enum' = "Listening"
    /\ accumulated_text' = ""
    /\ sleep_left' = SleepDuration("Listening", MaxIdle)
    /\ hist' = [hist EXCEPT !.kept = IF @ = "dropped" THEN "none" ELSE @]
    /\ UNCHANGED <<loop_pc, mcpVars, ws_open, chanVars, taskVars>>
    /\ UNCHANGED dbVars

\* llm_tx.send((accumulated_text.clone(), tool_defs)) once the channel has room,
\* then accumulated_text.clear().
HandOff ==
    /\ llm_q' = Append(llm_q, accumulated_text)
    /\ accumulated_text' = ""

\* ClientMessage::Listen { state: "stop" }: Processing in both branches; with a
\* non-empty transcript the utterance is sent to the turn worker, and the loop
\* waits in llm_tx.send(..).await while the channel is full.
WsListenStop ==
    /\ WsReady
    /\ TextSeen
    /\ state_enum' = "Processing"
    /\ sleep_left' = SleepDuration("Processing", MaxIdle)
    /\ IF IsEmpty(accumulated_text)
       THEN UNCHANGED <<loop_pc, accumulated_text, llm_q>>
       ELSE IF Len(llm_q) < LlmCap
            THEN HandOff /\ UNCHANGED loop_pc
            ELSE loop_pc' = "send_llm" /\ UNCHANGED <<accumulated_text, llm_q>>
    /\ UNCHANGED <<mcpVars, ws_open, stt_audio, stt_events, control_q, rpc_q, out_q, taskVars,
                   hist>>
    /\ UNCHANGED dbVars

\* The blocked llm_tx.send(..).await completes.
LlmSendResume ==
    /\ loop_pc = "send_llm"
    /\ Len(llm_q) < LlmCap
    /\ HandOff
    /\ loop_pc' = "select"
    /\ sleep_left' = SleepDuration(state_enum, idle_left)
    /\ UNCHANGED <<state_enum, is_standby, idle_left, mcpVars, ws_open, stt_audio,
                   stt_events, control_q, rpc_q, out_q, taskVars, hist>>
    /\ UNCHANGED dbVars

\* An Abort handler that forgets accumulated_text.clear().
WsAbort_KeepsText ==
    /\ WsReady
    /\ TextSeen
    /\ state_enum' = "Listening"
    /\ sleep_left' = SleepDuration("Listening", MaxIdle)
    /\ hist' = [hist EXCEPT !.since_abort = TRUE, !.kept = IF @ = "dropped" THEN "none" ELSE @]
    /\ UNCHANGED <<loop_pc, accumulated_text, mcpVars, ws_open, chanVars, taskVars>>
    /\ UNCHANGED dbVars

\* ClientMessage::Abort.
WsAbort ==
    /\ WsReady
    /\ TextSeen
    /\ state_enum' = "Listening"
    /\ accumulated_text' = ""
    /\ sleep_left' = SleepDuration("Listening", MaxIdle)
    /\ hist' = [hist EXCEPT !.since_abort = TRUE, !.kept = IF @ = "dropped" THEN "none" ELSE @]
    /\ UNCHANGED <<loop_pc, mcpVars, ws_open, chanVars, taskVars>>
    /\ UNCHANGED dbVars

\* The reply slot w receives a value: tx_chan.send(..) on its one-shot sender.
Complete(ws, w, st, by, rid) ==
    [ws EXCEPT ![w] = [@ EXCEPT !.st = st, !.n = @ + 1, !.by = by, !.rid = rid]]

\* A lookup that takes whatever waiter is pending, whatever the id.
Lookup_AnyPending(id) == pending_mcp_requests

\* pending_mcp_requests.remove(&id): the waiter registered under id, if any.
Lookup(id) == {p \in pending_mcp_requests : p[1] = id}
Remove(id) == pending_mcp_requests \ Lookup(id)

\* ClientMessage::Mcp whose payload is a response with integer id: the waiter
\* pending under id gets the result or the error; with no such waiter the
\* response is taken as the next step of the discovery handshake.
WsMcpResponse(id, isError, tools) ==
    /\ WsReady
    /\ TextSeen
    /\ sleep_left' = SleepDuration(state_enum, MaxIdle)
    /\ IF Lookup(id) # {}
       THEN /\ pending_mcp_requests' = Remove(id)
            /\ waiter' = LET w == (CHOOSE p \in Lookup(id) : TRUE)[2]
                         IN Complete(waiter, w, IF isError THEN "err" ELSE "ok", "response", id)
            /\ UNCHANGED <<mcp_state, mcp_request_id_counter, mcp_tools, out_q, hist>>
       ELSE /\ UNCHANGED <<pending_mcp_requests, waiter>>
            /\ IF mcp_state = "Initializing"
               THEN /\ mcp_request_id_counter' = mcp_request_id_counter + 1
                    /\ out_q' = Push(out_q, "tools/list")
                    /\ mcp_state' = "Ready"
                    /\ hist' = [hist EXCEPT !.lists = @ + 1,
                                            !.ids = Append(@, mcp_request_id_counter),
                                            !.list_id = mcp_request_id_counter]
                    /\ UNCHANGED mcp_tools
               ELSE /\ mcp_tools' = IF mcp_state = "Ready" /\ tools THEN TRUE ELSE mcp_tools
                    /\ UNCHANGED <<mcp_state, mcp_request_id_counter, out_q, hist>>
    /\ UNCHANGED <<loop_pc, state_enum, accumulated_text, ws_open, stt_audio, stt_events,
                   llm_q, control_q, rpc_q, writer, stt_alive, turn, standby>>
    /\ UNCHANGED dbVars

\* A Binary handler that counts audio as activity.
WsBinary_Refreshes(decoded) ==
    /\ WsReady
    /\ IF state_enum = "Listening"
       THEN /\ is_standby' = FALSE
            /\ IF decoded /\ stt_alive
               THEN IF stt_audio < SttAudioCap
                    THEN stt_audio' = stt_audio + 1 /\ UNCHANGED loop_pc
                    ELSE loop_pc' = "send_stt" /\ UNCHANGED stt_audio
               ELSE UNCHANGED <<loop_pc, stt_audio>>
       ELSE UNCHANGED <<is_standby, loop_pc, stt_audio>>
    /\ sleep_left' = SleepDuration(state_enum, MaxIdle)
    /\ hist' = [hist EXCEPT !.kept = IF idle_left < MaxIdle
                                     THEN IF state_enum = "Processing" THEN "dropped"
                                                                       ELSE "binary"
                                     ELSE @]
    /\ idle_left' = MaxIdle
    /\ UNCHANGED <<state_enum, accumulated_text, mcpVars, ws_open, stt_events,
                   llm_q, control_q, rpc_q, out_q, taskVars>>
    /\ UNCHANGED dbVars

\* A Binary handler without the test of the state.
WsBinary_AnyState(decoded) ==
    /\ WsReady
    /\ is_standby' = FALSE
    /\ IF decoded /\ stt_alive
       THEN IF stt_audio < SttAudioCap
            THEN stt_audio' = stt_audio + 1 /\ UNCHANGED loop_pc
            ELSE loop_pc' = "send_stt" /\ UNCHANGED stt_audio
       ELSE UNCHANGED <<loop_pc, stt_audio>>
    /\ sleep_left' = SleepDuration(state_enum, idle_left)
    /\ hist' = [hist EXCEPT !.kept = IF idle_left < MaxIdle
                                     THEN IF state_enum = "Processing" THEN "dropped"
                                                                       ELSE "binary"
                                     ELSE @]
    /\ UNCHANGED <<state_enum, accumulated_text, idle_left, mcpVars, ws_open, stt_events,
                   llm_q, control_q, rpc_q, out_q, taskVars>>
    /\ UNCHANGED dbVars

\* Message::Binary.  Processing: dropped.  Listening: is_standby = false, and a
\* decoded chunk goes to stt_audio_tx.send(..).await, which waits while the
\* recognizer's queue is full and fails at once when its receiver is gone.
WsBinary(decoded) ==
    /\ WsReady
    /\ IF state_enum = "Listening"
       THEN /\ is_standby' = FALSE
            /\ IF decoded /\ stt_alive
               THEN IF stt_audio < SttAudioCap
                    THEN stt_audio' = stt_audio + 1 /\ UNCHANGED loop_pc
                    ELSE loop_pc' = "send_stt" /\ UNCHANGED stt_audio
               ELSE UNCHANGED <<loop_pc, stt_audio>>
       ELSE UNCHANGED <<is_standby, loop_pc, stt_audio>>
    /\ sleep_left' = SleepDuration(state_enum, idle_left)
    /\ hist' = [hist EXCEPT !.kept = IF idle_left < MaxIdle
                                     THEN IF state_enum = "Processing" THEN "dropped"
                                                                       ELSE "binary"
                                     ELSE @]
    /\ UNCHANGED <<state_enum, accumulated_text, idle_left, mcpVars, ws_open, stt_events,
                   llm_q, control_q, rpc_q, out_q, taskVars>>
    /\ UNCHANGED dbVars

\* The blocked stt_audio_tx.send(..).await completes: room in the queue.
SttSendResume ==
    /\ loop_pc = "send_stt"
    /\ stt_audio < SttAudioCap
    /\ stt_audio' = stt_audio + 1
    /\ loop_pc' = "select"
    /\ sleep_left' = SleepDuration(state_enum, idle_left)
    /\ UNCHANGED <<state_enum, accumulated_text, is_standby, idle_left, mcpVars, ws_open,
                   stt_events, llm_q, control_q, rpc_q, out_q, taskVars, hist>>
    /\ UNCHANGED dbVars

\* Message::Ping: a Pong by send_nowait.  Message::Pong: nothing.
WsPing ==
    /\ WsReady
    /\ out_q' = Push(out_q, "pong")
    /\ sleep_left' = SleepDuration(state_enum, idle_left)
    /\ hist' = [hist EXCEPT !.kept = IF idle_left < MaxIdle THEN "ping" ELSE @]
    /\ UNCHANGED <<loop_pc, state_enum, accumulated_text, is_standby, idle_left, mcpVars,
                   ws_open, stt_audio, stt_events, llm_q, control_q, rpc_q, taskVars>>
    /\ UNCHANGED dbVars

\* Message::Close(_) => break.
WsClose ==
    /\ WsReady
    /\ BreakLoop("ws", out_q)

\* Err(e) from the socket receiver => break.
WsError ==
    /\ WsReady
    /\ BreakLoop("ws", out_q)

\* The control and tool-event senders live in the loop's own frame, so their
\* streams never end while the loop runs.
OtherStreamsEnded == FALSE

\* The socket receiver yields None.  select_all drops a finished stream and
\* yields None itself only when every stream has finished.
WsEndOfStream ==
    /\ WsReady
    /\ IF OtherStreamsEnded
       THEN BreakLoop("ws", out_q) /\ UNCHANGED ws_open
       ELSE /\ ws_open' = FALSE
            /\ sleep_left' = SleepDuration(state_enum, idle_left)
            /\ UNCHANGED <<loop_pc, state_enum, accumulated_text, is_standby, idle_left,
                           mcpVars, chanVars, taskVars, hist>>
    /\ UNCHANGED dbVars

\* LoopEvent::Stt(SttEvent::Text): last_activity, is_standby, the delta appended
\* to the transcript and the running transcript sent by send_nowait.
OnSttText ==
    /\ AtSelect
    /\ stt_events # <<>> /\ Head(stt_events) \in Words
    /\ stt_events' = Tail(stt_events)
    /\ idle_left' = MaxIdle
    /\ is_standby' = FALSE
    /\ accumulated_text' = PushDelta(accumulated_text, Head(stt_events))
    /\ out_q' = Push(out_q, "stt")
    /\ sleep_left' = SleepDuration(state_enum, MaxIdle)
    /\ hist' = [hist EXCEPT !.since_abort = FALSE]
    /\ UNCHANGED <<loop_pc, state_enum, mcpVars, ws_open, stt_audio, llm_q, control_q,
                   rpc_q, taskVars>>
    /\ UNCHANGED dbVars

\* LoopEvent::Stt(SttEvent::NoSpeech): with a transcript that is not blank the
\* utterance is sent to the turn worker as in Listen stop; otherwise nothing.
OnSttNoSpeech ==
    /\ AtSelect
    /\ stt_events # <<>> /\ Head(stt_events) = "NoSpeech"
    /\ stt_events' = Tail(stt_events)
    /\ IF TrimIsEmpty(accumulated_text)
       THEN UNCHANGED <<loop_pc, state_enum, accumulated_text, llm_q>>
       ELSE /\ state_enum' = "Processing"
            /\ IF Len(llm_q) < LlmCap
               THEN HandOff /\ UNCHANGED loop_pc
               ELSE loop_pc' = "send_llm" /\ UNCHANGED <<accumulated_text, llm_q>>
    /\ sleep_left' = SleepDuration(state_enum', idle_left)
    /\ hist' = [hist EXCEPT !.kept = IF idle_left < MaxIdle THEN "no_speech" ELSE @]
    /\ UNCHANGED <<is_standby, idle_left, mcpVars, ws_open, stt_audio, control_q, rpc_q,
                   out_q, taskVars>>
    /\ UNCHANGED dbVars

\* A control message that is the completion signal of a handed-off utterance.
FromTurn(m) == m \in {"LlmFinished", "Sleep"}

\* An LlmFinished handler that leaves the standby flag as it is.
OnLlmFinished_KeepsStandby ==
    /\ AtSelect
    /\ control_q # <<>> /\ Head(control_q) = "LlmFinished"
    /\ control_q' = Tail(control_q)
    /\ state_enum' = "Listening"
    /\ idle_left' = MaxIdle
    /\ sleep_left' = SleepDuration("Listening", MaxIdle)
    /\ hist' = [hist EXCEPT !.kept = IF @ = "dropped" THEN "none" ELSE @]
    /\ UNCHANGED <<loop_pc, accumulated_text, is_standby, mcpVars, ws_open, stt_audio,
                   stt_events, llm_q, rpc_q, out_q, taskVars>>
    /\ UNCHANGED dbVars

\* LoopEvent::Control(LlmFinished).
OnLlmFinished ==
    /\ AtSelect
    /\ control_q # <<>> /\ Head(control_q) = "LlmFinished"
    /\ control_q' = Tail(control_q)
    /\ state_enum' = "Listening"
    /\ idle_left' = MaxIdle
    /\ is_standby' = FALSE
    /\ sleep_left' = SleepDuration("Listening", MaxIdle)
    /\ hist' = [hist EXCEPT !.kept = IF @ = "dropped" THEN "none" ELSE @]
    /\ UNCHANGED <<loop_pc, accumulated_text, mcpVars, ws_open, stt_audio, stt_events,
                   llm_q, rpc_q, out_q, taskVars>>
    /\ UNCHANGED dbVars

\* LoopEvent::Control(Sleep), from a turn or from a standby task:
\* send_nowait(Close) and break.
OnSleep ==
    /\ AtSelect
    /\ control_q # <<>> /\ Head(control_q) \in {"Sleep", "StandbySleep"}
    /\ BreakLoop("sleep", Push(out_q, "close"))

\* An Rpc handler that keeps the reply slot in the map whether or not the
\* request was queued.
OnRpc_AlwaysPending ==
    /\ AtSelect
    /\ rpc_q # <<>>
    /\ LET w == Head(rpc_q)
           id == mcp_request_id_counter
       IN /\ rpc_q' = Tail(rpc_q)
          /\ mcp_request_id_counter' = id + 1
          /\ out_q' = Push(out_q, "mcp")
          /\ pending_mcp_requests' = pending_mcp_requests \cup {<<id, w>>}
          /\ waiter' = [waiter EXCEPT ![w] = [@ EXCEPT !.st = "pending", !.id = id]]
    /\ sleep_left' = SleepDuration(state_enum, idle_left)
    /\ hist' = [hist EXCEPT !.ids = Append(@, mcp_request_id_counter)]
    /\ UNCHANGED <<loop_pc, state_enum, accumulated_text, is_standby, idle_left, mcp_state,
                   mcp_tools, ws_open, stt_audio, stt_events, llm_q, control_q, writer,
                   stt_alive, turn, standby>>
    /\ UNCHANGED dbVars

\* An Rpc handler that takes the next id only for a request that was queued.
OnRpc_IdOnSuccess ==
    /\ AtSelect
    /\ rpc_q # <<>>
    /\ LET w == Head(rpc_q)
           id == mcp_request_id_counter
       IN /\ rpc_q' = Tail(rpc_q)
          /\ mcp_request_id_counter' = IF SendNowaitOk(out_q) THEN id + 1 ELSE id
          /\ out_q' = Push(out_q, "mcp")
          /\ IF SendNowaitOk(out_q)
             THEN /\ pending_mcp_requests' = pending_mcp_requests \cup {<<id, w>>}
                  /\ waiter' = [waiter EXCEPT ![w] = [@ EXCEPT !.st = "pending", !.id = id]]
             ELSE /\ waiter' = Complete([waiter EXCEPT ![w] = [@ EXCEPT !.id = id]],
                                        w, "err", "full", 0)
                  /\ UNCHANGED pending_mcp_requests
    /\ sleep_left' = SleepDuration(state_enum, idle_left)
    /\ hist' = [hist EXCEPT !.ids = Append(@, mcp_request_id_counter)]
    /\ UNCHANGED <<loop_pc, state_enum, accumulated_text, is_standby, idle_left, mcp_state,
                   mcp_tools, ws_open, stt_audio, stt_events, llm_q, control_q, writer,
                   stt_alive, turn, standby>>
    /\ UNCHANGED dbVars

\* LoopEvent::Rpc(call): the next id, the request by send_nowait; the reply slot
\* is kept under the id if the request was queued and gets an error otherwise.
OnRpc ==
    /\ AtSelect
    /\ rpc_q # <<>>
    /\ LET w == Head(rpc_q)
           id == mcp_request_id_counter
       IN /\ rpc_q' = Tail(rpc_q)
          /\ mcp_request_id_counter' = id + 1
          /\ out_q' = Push(out_q, "mcp")
          /\ IF SendNowaitOk(out_q)
             THEN /\ pending_mcp_requests' = pending_mcp_requests \cup {<<id, w>>}
                  /\ waiter' = [waiter EXCEPT ![w] = [@ EXCEPT !.st = "pending", !.id = id]]
             ELSE /\ waiter' = Complete([waiter EXCEPT ![w] = [@ EXCEPT !.id = id]],
                                        w, "err", "full", 0)
                  /\ UNCHANGED pending_mcp_requests
    /\ sleep_left' = SleepDuration(state_enum, idle_left)
    /\ hist' = [hist EXCEPT !.ids = Append(@, mcp_request_id_counter)]
    /\ UNCHANGED <<loop_pc, state_enum, accumulated_text, is_standby, idle_left, mcp_state,
                   mcp_tools, ws_open, stt_audio, stt_events, llm_q, control_q, writer,
                   stt_alive, turn, standby>>
    /\ UNCHANGED dbVars

\* A sleep branch that looks at the standby flag only.
OnTimer_NoStateTest ==
    /\ AtSelect
    /\ sleep_left = 0
    /\ IF ~is_standby
       THEN /\ hist.spawned < MaxStandby
            /\ is_standby' = TRUE
            /\ standby' = [standby EXCEPT ![hist.spawned + 1].pc = "start"]
            /\ hist' = [hist EXCEPT !.spawned = @ + 1]
       ELSE UNCHANGED <<is_standby, standby, hist>>
    /\ sleep_left' = SleepDuration(state_enum, idle_left)
    /\ UNCHANGED <<loop_pc, state_enum, accumulated_text, idle_left, mcpVars, ws_open,
                   chanVars, writer, stt_alive, turn, waiter>>
    /\ UNCHANGED dbVars

\* The sleep branch of select!: the standby task is spawned unless the standby
\* flag is set or the state is Processing.
OnTimer ==
    /\ AtSelect
    /\ sleep_left = 0
    /\ IF ~is_standby /\ state_enum # "Processing"
       THEN /\ hist.spawned < MaxStandby
            /\ is_standby' = TRUE
            /\ standby' = [standby EXCEPT ![hist.spawned + 1].pc = "start"]
            /\ hist' = [hist EXCEPT !.spawned = @ + 1]
       ELSE UNCHANGED <<is_standby, standby, hist>>
    /\ sleep_left' = SleepDuration(state_enum, idle_left)
    /\ UNCHANGED <<loop_pc, state_enum, accumulated_text, idle_left, mcpVars, ws_open,
                   chanVars, writer, stt_alive, turn, waiter>>
    /\ UNCHANGED dbVars

\* One tick passes.  A sleep that has run out is served (or replaced by the handling
\* of an event that is ready at the same instant) before more time passes.
Tick ==
    /\ loop_pc # "done"
    /\ ~(AtSelect /\ sleep_left = 0)
    /\ idle_left' = Max(idle_left - 1, 0 - MaxOver)
    /\ sleep_left' = IF AtSelect /\ sleep_left # Far THEN sleep_left - 1 ELSE sleep_left
    /\ hist' = [hist EXCEPT !.kept = "none"]
    /\ UNCHANGED <<loop_pc, state_enum, accumulated_text, is_standby, mcpVars, ws_open,
                   chanVars, taskVars>>
    /\ UNCHANGED dbVars

\* ------------------------------------------------------- recognition task

\* The recognizer takes one PCM chunk and yields nothing, a Text or a NoSpeech,
\* which stt_event_tx.send(evt).await puts on the event queue when it has room.
SttStep(evt) ==
    /\ stt_alive /\ loop_pc # "done"
    /\ stt_audio > 0
    /\ stt_audio' = stt_audio - 1
    /\ IF evt = "none"
       THEN UNCHANGED stt_events
       ELSE /\ Len(stt_events) < SttEventCap
            /\ stt_events' = Append(stt_events, evt)
    /\ UNCHANGED <<loopVars, mcpVars, ws_open, llm_q, control_q, rpc_q, out_q, taskVars, hist>>
    /\ UNCHANGED dbVars

\* The recognition task ends once the loop is gone (its PCM stream finished, or
\* stt_event_tx.send failed): the receiver of the PCM queue is dropped.  A task
\* whose stream_speech failed never ran: stt_alive is FALSE from the start.
SttExit ==
    /\ stt_alive /\ loop_pc = "done"
    /\ stt_alive' = FALSE
    /\ stt_audio' = 0
    /\ UNCHANGED <<loopVars, mcpVars, ws_open, stt_events, llm_q, control_q, rpc_q, out_q,
                   writer, turn, standby, waiter, hist>>
    /\ UNCHANGED dbVars

\* --------------------------------------------------------- Outbound Writer

\* rx.recv() and sender.send(msg) to the socket.
WriterSend ==
    /\ RxOpen
    /\ out_q # <<>>
    /\ out_q' = Tail(out_q)
    /\ hist' = [hist EXCEPT !.wire_close = @ \/ Head(out_q) = "close"]
    /\ UNCHANGED <<loopVars, mcpVars, ws_open, stt_audio, stt_events, llm_q, control_q,
                   rpc_q, taskVars>>
    /\ UNCHANGED dbVars

\* sender.send(msg) fails: the writer stops and drops the queue's receiver.
WriterFail ==
    /\ RxOpen
    /\ out_q # <<>>
    /\ writer' = "failed"
    /\ out_q' = <<>>
    /\ UNCHANGED <<loopVars, mcpVars, ws_open, stt_audio, stt_events, llm_q, control_q,
                   rpc_q, stt_alive, turn, standby, waiter, hist>>
    /\ UNCHANGED dbVars

\* writer_handle.abort() takes effect at the writer's next yield.
WriterCancelled ==
    /\ writer = "aborting"
    /\ writer' = "aborted"
    /\ out_q' = <<>>
    /\ UNCHANGED <<loopVars, mcpVars, ws_open, stt_audio, stt_events, llm_q, control_q,
                   rpc_q, stt_alive, turn, standby, waiter, hist>>
    /\ UNCHANGED dbVars

\* ------------------------------------------------------------ turn worker

\* send_message_safe(tx, msg): queued when the queue has room; false when the
\* receiver is gone, or after 5 s of a full queue.
CanSend == RxOpen /\ Len(out_q) < OutboundCap
SendFails == ~RxOpen \/ Len(out_q) >= OutboundCap

turnFrame == <<loopVars, mcpVars, ws_open, stt_audio, stt_events, writer, stt_alive, standby>>

\* The messages process_text_logic pushes for a ToolCall response: the
\* assistant message carrying the k calls (their ids are 1..k, in order), and
\* the tool message for call i, whose content is the text of the result or the
\* formatted error ("Error: ..").
AssistantMessage(k) == [role |-> "assistant", calls |-> k, id |-> 0, content |-> ""]
ToolMessage(i, reply) ==
    [role |-> "tool", calls |-> 0, id |-> i,
     content |-> IF reply = "ok" THEN "result" ELSE "error"]

\* process_text_logic returns r (its message list is dropped); the worker goes
\* on to signal the loop.
Return(r) == [turn EXCEPT !.pc = "signal", !.result = r, !.ext = <<>>]

\* llm_rx.recv() and the start of process_text_logic: a blank text returns false.
TurnRecv ==
    /\ turn.pc = "idle"
    /\ llm_q # <<>>
    /\ llm_q' = Tail(llm_q)
    /\ turn' = IF TrimIsEmpty(Head(llm_q))
               THEN [IdleTurn EXCEPT !.pc = "signal", !.text = Head(llm_q)]
               ELSE [IdleTurn EXCEPT !.pc = "chat", !.text = Head(llm_q)]
    /\ UNCHANGED <<turnFrame, control_q, rpc_q, out_q, waiter, hist>>
    /\ UNCHANGED dbVars

\* A dialog loop without the cap on its rounds.
TurnChat_NoCap(resp, sl, k) ==
    /\ turn.pc = "chat"
    /\ CASE resp = "err" ->
              turn' = [Return(FALSE) EXCEPT !.loop_count = @ + 1, !.kind = "err"]
         [] resp = "text" ->
              turn' = [turn EXCEPT !.loop_count = @ + 1, !.should_sleep = sl,
                                   !.kind = "text", !.pc = "llm", !.ext = <<>>]
         [] resp = "empty" ->
              turn' = [Return(sl) EXCEPT !.loop_count = @ + 1, !.should_sleep = sl]
         [] resp = "tools" ->
              /\ hist.issued + k <= MaxCalls
              /\ turn' = [turn EXCEPT !.loop_count = @ + 1, !.calls = k,
                                      !.ext = <<AssistantMessage(k)>>,
                                      !.pc = IF k > 0 THEN "rpc_send" ELSE "chat"]
    /\ UNCHANGED <<turnFrame, llm_q, control_q, rpc_q, out_q, waiter, hist>>
    /\ UNCHANGED dbVars

\* One round of the dialog loop: the loop cap, then state.llm.chat(..) and the
\* branch on its answer.  resp is "err", "text" (cleaned text non-empty),
\* "empty" (cleaned text empty) or "tools"; sl says the text holds [SLEEP]; k is
\* the number of tool calls.
TurnChat(resp, sl, k) ==
    /\ turn.pc = "chat"
    /\ IF turn.loop_count >= MAX_LOOPS
       THEN turn' = [Return(FALSE) EXCEPT !.kind = "cap"]
       ELSE CASE resp = "err" ->
                   turn' = [Return(FALSE) EXCEPT !.loop_count = @ + 1, !.kind = "err"]
              [] resp = "text" ->
                   turn' = [turn EXCEPT !.loop_count = @ + 1, !.should_sleep = sl,
                                        !.kind = "text", !.pc = "llm", !.ext = <<>>]
              [] resp = "empty" ->
                   turn' = [Return(sl) EXCEPT !.loop_count = @ + 1, !.should_sleep = sl]
              [] resp = "tools" ->
                   /\ hist.issued + k <= MaxCalls
                   /\ turn' = [turn EXCEPT !.loop_count = @ + 1, !.calls = k,
                                           !.ext = <<AssistantMessage(k)>>,
                                           !.pc = IF k > 0 THEN "rpc_send" ELSE "chat"]
    /\ UNCHANGED <<turnFrame, llm_q, control_q, rpc_q, out_q, waiter, hist>>
    /\ UNCHANGED dbVars

\* The text message the turn sends at each position, and the position after it.
TurnMsg(pc) ==
    CASE pc = "llm" -> "llm"
      [] pc = "tts_start" -> "tts_start"
      [] pc = "sentence_start" -> "sentence_start"
      [] pc = "tts_stop" -> "tts_stop"

\* A turn that goes from Tts start straight to the synthesizer.
AfterSend_SkipSentence(t) ==
    CASE t.pc = "llm" -> [t EXCEPT !.pc = "save_user"]
      [] t.pc = "tts_start" -> [t EXCEPT !.pc = "speak"]
      [] t.pc = "sentence_start" -> [t EXCEPT !.pc = "speak"]
      [] t.pc = "tts_stop" -> [t EXCEPT !.pc = "signal", !.result = t.should_sleep]

AfterSend(t) ==
    CASE t.pc = "llm" -> [t EXCEPT !.pc = "save_user"]
      [] t.pc = "tts_start" -> [t EXCEPT !.pc = "sentence_start"]
      [] t.pc = "sentence_start" -> [t EXCEPT !.pc = "speak"]
      [] t.pc = "tts_stop" -> [t EXCEPT !.pc = "signal", !.result = t.should_sleep]

\* A turn that goes on to the history when its llm message could not be sent.
TurnSendText_SavesAnyway ==
    /\ turn.pc \in {"llm", "tts_start", "sentence_start", "tts_stop"}
    /\ \/ /\ CanSend
          /\ out_q' = Append(out_q, TurnMsg(turn.pc))
          /\ turn' = AfterSend([turn EXCEPT !.out = Append(@, TurnMsg(turn.pc))])
       \/ /\ SendFails
          /\ turn' = IF turn.pc = "llm"
                     THEN [turn EXCEPT !.pc = "save_user", !.cut = TRUE]
                     ELSE [Return(FALSE) EXCEPT !.cut = TRUE]
          /\ UNCHANGED out_q
    /\ UNCHANGED <<turnFrame, llm_q, control_q, rpc_q, waiter, hist>>
    /\ UNCHANGED dbVars

\* The Llm, Tts start, Tts sentence_start and Tts stop messages, each by
\* send_message_safe; a failed send returns false.
TurnSendText ==
    /\ turn.pc \in {"llm", "tts_start", "sentence_start", "tts_stop"}
    /\ \/ /\ CanSend
          /\ out_q' = Append(out_q, TurnMsg(turn.pc))
          /\ turn' = AfterSend([turn EXCEPT !.out = Append(@, TurnMsg(turn.pc))])
       \/ /\ SendFails
          /\ turn' = [Return(FALSE) EXCEPT !.cut = TRUE]
          /\ UNCHANGED out_q
    /\ UNCHANGED <<turnFrame, llm_q, control_q, rpc_q, waiter, hist>>
    /\ UNCHANGED dbVars

\* history.push(Message { role, content }) under the write lock; of the device's
\* history the most recent MaxHistory entries are kept.  An entry is its role and
\* the session that wrote it (1: this session, 2: the peer).
AddChatHistory(h, role, by) ==
    LET all == Append(h, [role |-> role, by |-> by])
    IN IF Len(all) > MaxHistory THEN SubSeq(all, Len(all) - MaxHistory + 1, Len(all))
       ELSE all

\* get_chat_history(device_id, limit): the last limit entries, oldest first.
GetChatHistory(h, limit) ==
    LET start == IF Len(h) > limit THEN Len(h) - limit ELSE 0
    IN SubSeq(h, start + 1, Len(h))

\* let _ = state.db.add_chat_history(device_id, "user", text).await, then the
\* same for ("model", clean_text): two calls, the result of each ignored (ok
\* says whether the store took the entry).
TurnSave(ok) ==
    /\ turn.pc \in {"save_user", "save_model"}
    /\ chat_history' = IF ok
                       THEN AddChatHistory(chat_history,
                                IF turn.pc = "save_user" THEN "user" ELSE "model", 1)
                       ELSE chat_history
    /\ turn' = [turn EXCEPT !.pc = IF turn.pc = "save_user" THEN "save_model"
                                                             ELSE "tts_start",
                            !.saved = IF ok THEN @ + 1 ELSE @]
    /\ UNCHANGED <<turnFrame, llm_q, control_q, rpc_q, out_q, waiter, peer, svc, hist>>

\* Another session of the same device reaches the two add_chat_history calls of
\* a text turn of its own.
PeerBegin ==
    /\ peer = "idle"
    /\ peer' = "save_user"
    /\ UNCHANGED <<loopVars, mcpVars, ws_open, chanVars, taskVars, chat_history, svc, hist>>

PeerSave(ok) ==
    /\ peer \in {"save_user", "save_model"}
    /\ chat_history' = IF ok
                       THEN AddChatHistory(chat_history,
                                IF peer = "save_user" THEN "user" ELSE "model", 2)
                       ELSE chat_history
    /\ peer' = IF peer = "save_user" THEN "save_model" ELSE "idle"
    /\ UNCHANGED <<loopVars, mcpVars, ws_open, chanVars, taskVars, svc, hist>>

\* A turn that gives up when the synthesizer fails.
TurnSpeak_ErrAborts(ok, n) ==
    /\ turn.pc = "speak"
    /\ turn' = IF ok
               THEN IF n > 0 THEN [turn EXCEPT !.pc = "frames", !.frames = n]
                    ELSE [turn EXCEPT !.pc = "tts_stop"]
               ELSE Return(FALSE)
    /\ UNCHANGED <<turnFrame, llm_q, control_q, rpc_q, out_q, waiter, hist>>
    /\ UNCHANGED dbVars

\* state.tts.speak(..): Ok with n frames, or Err (ok = FALSE), which is logged.
TurnSpeak(ok, n) ==
    /\ turn.pc = "speak"
    /\ turn' = IF ok /\ n > 0
               THEN [turn EXCEPT !.pc = "frames", !.frames = n]
               ELSE [turn EXCEPT !.pc = "tts_stop"]
    /\ UNCHANGED <<turnFrame, llm_q, control_q, rpc_q, out_q, waiter, hist>>
    /\ UNCHANGED dbVars

\* A frame sent by try_send: a frame that finds no room is dropped and the turn
\* goes on with the next one.
TurnSendFrame_TrySend ==
    /\ turn.pc = "frames"
    /\ out_q' = Push(out_q, "bin")
    /\ turn' = [turn EXCEPT !.out = IF SendNowaitOk(out_q) THEN Append(@, "bin") ELSE @,
                            !.frames = @ - 1,
                            !.pc = IF turn.frames = 1 THEN "tts_stop" ELSE "frames"]
    /\ UNCHANGED <<turnFrame, llm_q, control_q, rpc_q, waiter, hist>>
    /\ UNCHANGED dbVars

\* One paced frame by send_message_safe; a failed send aborts the turn.
TurnSendFrame ==
    /\ turn.pc = "frames"
    /\ \/ /\ CanSend
          /\ out_q' = Append(out_q, "bin")
          /\ turn' = [turn EXCEPT !.out = Append(@, "bin"), !.frames = @ - 1,
                                  !.pc = IF turn.frames = 1 THEN "tts_stop" ELSE "frames"]
       \/ /\ SendFails
          /\ turn' = [Return(FALSE) EXCEPT !.cut = TRUE]
          /\ UNCHANGED out_q
    /\ UNCHANGED <<turnFrame, llm_q, control_q, rpc_q, waiter, hist>>
    /\ UNCHANGED dbVars

\* mcp_rpc_tx.send(RpcCall { .., resp_tx }).await for the next tool call: a fresh
\* one-shot slot travels to the loop; with the loop gone the send fails.
TurnRpcSend ==
    /\ turn.pc = "rpc_send"
    /\ IF loop_pc = "done"
       THEN /\ turn' = Return(FALSE)
            /\ UNCHANGED <<rpc_q, waiter, hist>>
       ELSE /\ Len(rpc_q) < RpcCap
            /\ LET w == hist.issued + 1
               IN /\ rpc_q' = Append(rpc_q, w)
                  /\ waiter' = [waiter EXCEPT ![w] = [@ EXCEPT !.st = "queued"]]
                  /\ turn' = [turn EXCEPT !.pc = "rpc_wait", !.w = w]
            /\ hist' = [hist EXCEPT !.issued = @ + 1]
    /\ UNCHANGED <<turnFrame, llm_q, control_q, out_q>>
    /\ UNCHANGED dbVars

\* The call of the round's assistant message the worker is at: the calls are
\* taken in order and turn.calls of them are left.
CurrentCall == turn.ext[1].calls - turn.calls + 1

\* A worker that gives the turn up when a tool call is answered with an error.
TurnRpcWait_ErrorAborts ==
    /\ turn.pc = "rpc_wait"
    /\ waiter[turn.w].st \in {"ok", "err", "closed"}
    /\ turn' = IF waiter[turn.w].st \in {"closed", "err"}
               THEN [Return(FALSE) EXCEPT !.w = 0]
               ELSE [turn EXCEPT !.calls = @ - 1, !.w = 0,
                                 !.ext = Append(@, ToolMessage(CurrentCall, "ok")),
                                 !.pc = IF turn.calls > 1 THEN "rpc_send" ELSE "chat"]
    /\ waiter' = [waiter EXCEPT ![turn.w] = [st |-> "taken", id |-> 0, n |-> @.n, by |-> "none", rid |-> 0]]
    /\ UNCHANGED <<turnFrame, llm_q, control_q, rpc_q, out_q, hist>>
    /\ UNCHANGED dbVars

\* A worker that goes on to the next call without waiting for the reply.
TurnRpcWait_NoWait ==
    /\ turn.pc = "rpc_wait"
    /\ waiter[turn.w].st \in {"pending", "ok", "err", "closed"}
    /\ turn' = IF waiter[turn.w].st = "closed"
               THEN [Return(FALSE) EXCEPT !.w = 0]
               ELSE [turn EXCEPT !.calls = @ - 1, !.w = 0,
                                 !.ext = Append(@, ToolMessage(CurrentCall, "ok")),
                                 !.pc = IF turn.calls > 1 THEN "rpc_send" ELSE "chat"]
    /\ UNCHANGED <<turnFrame, llm_q, control_q, rpc_q, out_q, waiter, hist>>
    /\ UNCHANGED dbVars

\* resp_rx.await: a result or an error becomes the tool message and the next call
\* (or the next round) follows; a dropped sender returns false.  The slot is
\* consumed: of a taken slot only the number of values it received is kept.
TurnRpcWait ==
    /\ turn.pc = "rpc_wait"
    /\ waiter[turn.w].st \in {"ok", "err", "closed"}
    /\ turn' = IF waiter[turn.w].st = "closed"
               THEN [Return(FALSE) EXCEPT !.w = 0]
               ELSE [turn EXCEPT !.calls = @ - 1, !.w = 0,
                                 !.ext = Append(@, ToolMessage(CurrentCall,
                                                               waiter[turn.w].st)),
                                 !.pc = IF turn.calls > 1 THEN "rpc_send" ELSE "chat"]
    /\ waiter' = [waiter EXCEPT ![turn.w] = [st |-> "taken", id |-> 0, n |-> @.n, by |-> "none", rid |-> 0]]
    /\ UNCHANGED <<turnFrame, llm_q, control_q, rpc_q, out_q, hist>>
    /\ UNCHANGED dbVars

\* A worker that tells the loop about a requested sleep and about nothing else.
TurnSignal_OnlySleep ==
    /\ turn.pc = "signal"
    /\ IF loop_pc = "done" \/ ~turn.result
       THEN UNCHANGED control_q
       ELSE /\ Len(control_q) < ControlCap
            /\ control_q' = Append(control_q, "Sleep")
    /\ turn' = IdleTurn
    /\ UNCHANGED <<turnFrame, llm_q, rpc_q, out_q, waiter, hist>>
    /\ UNCHANGED dbVars

\* control_tx_llm.send(Sleep | LlmFinished).await after process_text_logic; the
\* result of the send is ignored.
TurnSignal ==
    /\ turn.pc = "signal"
    /\ IF loop_pc = "done"
       THEN UNCHANGED control_q
       ELSE /\ Len(control_q) < ControlCap
            /\ control_q' = Append(control_q, IF turn.result THEN "Sleep" ELSE "LlmFinished")
    /\ turn' = IdleTurn
    /\ UNCHANGED <<turnFrame, llm_q, rpc_q, out_q, waiter, hist>>
    /\ UNCHANGED dbVars

\* ------------------------------------------------------------ standby task

sbFrame == <<loopVars, mcpVars, ws_open, stt_audio, stt_events, llm_q, rpc_q, writer,
             stt_alive, turn, waiter, hist>>

SbMsg(pc) ==
    CASE pc = "start" -> "sb_start"
      [] pc = "sentence" -> "sb_sentence"
      [] pc = "frames" -> "sb_bin"
      [] pc = "stop" -> "sb_stop"

SbNext(t) ==
    CASE t.pc = "start" -> [t EXCEPT !.pc = "sentence"]
      [] t.pc = "sentence" -> [t EXCEPT !.pc = "speak"]
      [] t.pc = "frames" -> [t EXCEPT !.frames = @ - 1,
                                      !.pc = IF t.frames = 1 THEN "stop" ELSE "frames"]
      [] t.pc = "stop" -> [t EXCEPT !.pc = "signal"]

\* A standby task that ends without a signal when one of its sends failed.
SbSend_FailEnds(i) ==
    /\ standby[i].pc \in {"start", "sentence", "frames", "stop"}
    /\ \/ /\ CanSend
          /\ out_q' = Append(out_q, SbMsg(standby[i].pc))
          /\ standby' = [standby EXCEPT ![i] = SbNext(@)]
       \/ /\ SendFails
          /\ standby' = [standby EXCEPT ![i] = [pc |-> "end", frames |-> 0]]
          /\ UNCHANGED out_q
    /\ UNCHANGED <<sbFrame, control_q>>
    /\ UNCHANGED dbVars

\* trigger_tts_only: Tts start, Tts sentence_start, the frames and Tts stop by
\* send_message_safe; a failed send before the stop returns at once.
SbSend(i) ==
    /\ standby[i].pc \in {"start", "sentence", "frames", "stop"}
    /\ \/ /\ CanSend
          /\ out_q' = Append(out_q, SbMsg(standby[i].pc))
          /\ standby' = [standby EXCEPT ![i] = SbNext(@)]
       \/ /\ SendFails
          /\ standby' = [standby EXCEPT ![i] = [pc |-> "signal", frames |-> 0]]
          /\ UNCHANGED out_q
    /\ UNCHANGED <<sbFrame, control_q>>
    /\ UNCHANGED dbVars

\* state.tts.speak(prompt, None) of the standby prompt: Ok with n frames, or Err
\* (n = 0 as well), which is logged.
SbSpeak(i, n) ==
    /\ standby[i].pc = "speak"
    /\ standby' = [standby EXCEPT ![i] = IF n > 0 THEN [pc |-> "frames", frames |-> n]
                                         ELSE [pc |-> "stop", frames |-> 0]]
    /\ UNCHANGED <<sbFrame, control_q, out_q>>
    /\ UNCHANGED dbVars

\* control_tx_clone.send(ControlMessage::Sleep).await once trigger_tts_only is back.
SbSignal(i) ==
    /\ standby[i].pc = "signal"
    /\ IF loop_pc = "done"
       THEN UNCHANGED control_q
       ELSE /\ Len(control_q) < ControlCap
            /\ control_q' = Append(control_q, "StandbySleep")
    /\ standby' = [standby EXCEPT ![i] = [pc |-> "end", frames |-> 0]]
    /\ UNCHANGED <<sbFrame, out_q>>
    /\ UNCHANGED dbVars

\* ---------------------------------------------------------- specifications

\* The socket frames of a dialog: Listen, Abort, other text, audio, and the end
\* of the connection.
WsDialog ==
    \/ WsTextOther
    \/ WsListenStart
    \/ WsListenStop
    \/ WsAbort
    \/ \E d \in BOOLEAN : WsBinary(d)
    \/ WsClose
    \/ WsError
    \/ WsEndOfStream

\* What the loop does between and after socket frames in a dialog.
LoopDialog ==
    \/ LlmSendResume
    \/ SttSendResume
    \/ OnSttText
    \/ OnSttNoSpeech
    \/ OnLlmFinished
    \/ OnSleep

Recognizer ==
    \/ \E evt \in {"none", "NoSpeech"} \cup Words : SttStep(evt)
    \/ SttExit

Writer ==
    \/ WriterSend
    \/ WriterFail
    \/ WriterCancelled

\* The turn worker answering with text only.
TurnText ==
    \/ TurnRecv
    \/ \E r \in {"err", "text", "empty"}, sl \in BOOLEAN : TurnChat(r, sl, 0)
    \/ TurnSendText
    \/ TurnSave(TRUE)
    \/ \E ok \in BOOLEAN, n \in 0..MaxFrames : TurnSpeak(ok, n)
    \/ TurnSendFrame
    \/ TurnSignal

\* A dialog: a device that listens, speaks, aborts and disconnects, with no tool
\* protocol and no idle period.
Next ==
    \/ WsDialog
    \/ LoopDialog
    \/ Recognizer
    \/ Writer
    \/ TurnText

Spec == Init /\ [][Next]_vars

\* The listening side of a dialog: the model call fails or answers with nothing
\* to say, so a turn ends without speech.
TurnSilent ==
    \/ TurnRecv
    \/ \E r \in {"err", "empty"}, sl \in BOOLEAN : TurnChat(r, sl, 0)
    \/ TurnSignal

NextListen ==
    \/ WsDialog
    \/ LoopDialog
    \/ Recognizer
    \/ Writer
    \/ TurnSilent

SpecListen == Init /\ [][NextListen]_vars

\* The speaking side of a dialog: the device streams speech at the pace of the
\* recognizer, stops listening and may disconnect while the turn worker speaks.
NextSpeak ==
    \/ stt_audio = 0 /\ stt_events = <<>> /\ WsBinary(TRUE)
    \/ WsListenStop
    \/ WsClose
    \/ LlmSendResume
    \/ OnSttText
    \/ OnLlmFinished
    \/ OnSleep
    \/ SttStep("w")
    \/ Writer
    \/ TurnText

SpecSpeak == Init /\ [][NextSpeak]_vars

\* Tool calls: a model that asks for tool calls, and a device that answers (or
\* not) with any id, with a result or an error, and may disconnect.
TurnTools ==
    \/ TurnRecv
    \/ \E r \in {"empty", "tools"}, k \in 1..DialogCalls :
          /\ r = "tools" => hist.issued + k <= DialogCalls
          /\ TurnChat(r, FALSE, k)
    \/ TurnRpcSend
    \/ TurnRpcWait
    \/ TurnSignal

NextRpc ==
    \/ \E id \in Ids, e \in BOOLEAN : WsMcpResponse(id, e, TRUE)
    \/ WsBinary(TRUE)
    \/ WsListenStop
    \/ WsClose
    \/ LlmSendResume
    \/ SttSendResume
    \/ OnSttText
    \/ OnLlmFinished
    \/ OnRpc
    \/ SttStep("w")
    \/ WriterSend
    \/ TurnTools

SpecRpc == Init /\ [][NextRpc]_vars

\* An idle device: audio, pings and an occasional text frame while time passes.
Standby ==
    \E i \in 1..MaxStandby :
        \/ SbSend(i)
        \/ \E n \in 0..MaxFrames : SbSpeak(i, n)
        \/ SbSignal(i)

NextIdle ==
    \/ WsTextOther
    \/ \E d \in BOOLEAN : WsBinary(d)
    \/ SttSendResume
    \/ WsPing
    \/ WsClose
    \/ OnSleep
    \/ OnTimer
    \/ Tick
    \/ SttStep("none")
    \/ Writer
    \/ Standby

SpecIdle == Init /\ [][NextIdle]_vars

\* Two sessions of one device: this one in a dialog of text turns, the peer
\* writing the history of text turns of its own, the store taking or refusing
\* each entry.
TurnPlain ==
    \/ TurnRecv
    \/ TurnChat("text", FALSE, 0)
    \/ TurnSendText
    \/ \E ok \in BOOLEAN : TurnSave(ok)
    \/ TurnSpeak(FALSE, 0)
    \/ TurnSignal

NextHistory ==
    \/ WsBinary(TRUE)
    \/ WsListenStop
    \/ OnSttText
    \/ OnLlmFinished
    \/ SttStep("w")
    \/ WriterSend
    \/ TurnPlain
    \/ PeerBegin
    \/ \E ok \in BOOLEAN : PeerSave(ok)

SpecHistory == Init /\ [][NextHistory]_vars

\* Activity and time: Listen stop, audio, pings, recognizer events and failing
\* turns while the idle deadline runs.
NextActivity ==
    \/ WsListenStop
    \/ \E d \in BOOLEAN : WsBinary(d)
    \/ WsPing
    \/ SttSendResume
    \/ LlmSendResume
    \/ OnSttText
    \/ OnSttNoSpeech
    \/ OnLlmFinished
    \/ Tick
    \/ \E evt \in {"w", "NoSpeech"} : SttStep(evt)
    \/ TurnRecv
    \/ TurnChat("err", FALSE, 0)
    \/ TurnSignal

SpecActivity == Init /\ [][NextActivity]_vars

\* The handshake scenario: Hello with and without features.mcp, tool-protocol
\* responses under any id, Listen start, Abort, Ping, audio and its transcript,
\* and a writer that can fail.
NextHello ==
    \/ \E mcp \in BOOLEAN : WsHello(mcp)
    \/ WsHelloInitialize
    \/ \E id \in Ids, e \in BOOLEAN, tools \in BOOLEAN : WsMcpResponse(id, e, tools)
    \/ WsListenStart
    \/ WsAbort
    \/ WsBinary(TRUE)
    \/ WsPing
    \/ OnSttText
    \/ SttStep("w")
    \/ WriterSend
    \/ WriterFail

SpecHello == Init /\ [][NextHello]_vars

\* A failing model: every utterance handed to the turn worker ends in an LLM
\* error, while the device goes on listening and time passes up to the standby
\* prompt.
NextFault ==
    \/ WsBinary(TRUE)
    \/ WsListenStart
    \/ WsListenStop
    \/ OnSttText
    \/ OnLlmFinished
    \/ OnTimer
    \/ Tick
    \/ SttStep("w")
    \/ WriterSend
    \/ TurnRecv
    \/ TurnChat("err", FALSE, 0)
    \/ TurnSignal

SpecFault == Init /\ [][NextFault]_vars

\* The idle device under the scheduling the runtime gives: time passes, a sleep
\* that is ready again and again at select! is served, a control message that is
\* ready is handled, and the recognizer, the writer and the standby tasks run.
FairIdle ==
    /\ WF_vars(Tick)
    /\ SF_vars(OnTimer)
    /\ SF_vars(OnSleep)
    /\ WF_vars(SttSendResume)
    /\ WF_vars(SttStep("none"))
    /\ WF_vars(Writer)
    /\ WF_vars(Standby)

SpecIdleFair == Init /\ [][NextIdle]_vars /\ FairIdle

\* Tool calls under the scheduling the runtime gives: an event that is ready at
\* select! is handled, and the recognizer, the writer and the turn worker run.
\* What the device sends, a tool response included, is up to the device.
FairRpc ==
    /\ WF_vars(OnRpc)
    /\ WF_vars(OnSttText)
    /\ WF_vars(OnLlmFinished)
    /\ WF_vars(LlmSendResume)
    /\ WF_vars(SttSendResume)
    /\ WF_vars(SttStep("w"))
    /\ WF_vars(WriterSend)
    /\ WF_vars(TurnTools)

SpecRpcFair == Init /\ [][NextRpc]_vars /\ FairRpc

\* Tool calls in a session that ends: a model that asks for one tool call per
\* round, a device that answers or not, disconnects or fails at any moment, and
\* the tasks the session leaves behind, which run on.
TurnSingle ==
    \/ TurnRecv
    \/ \E r \in {"empty", "tools"} :
          /\ r = "tools" => hist.issued + 1 <= DialogCalls
          /\ TurnChat(r, FALSE, 1)
    \/ TurnRpcSend
    \/ TurnRpcWait
    \/ TurnSignal

NextTeardown ==
    \/ \E id \in Ids, e \in BOOLEAN : WsMcpResponse(id, e, TRUE)
    \/ WsBinary(TRUE)
    \/ WsListenStop
    \/ WsClose
    \/ WsError
    \/ LlmSendResume
    \/ SttSendResume
    \/ OnSttText
    \/ OnLlmFinished
    \/ OnRpc
    \/ SttStep("w")
    \/ SttExit
    \/ WriterSend
    \/ WriterCancelled
    \/ TurnSingle

FairTeardown ==
    /\ WF_vars(OnRpc)
    /\ WF_vars(OnSttText)
    /\ WF_vars(OnLlmFinished)
    /\ WF_vars(LlmSendResume)
    /\ WF_vars(SttSendResume)
    /\ WF_vars(SttStep("w"))
    /\ WF_vars(SttExit)
    /\ WF_vars(WriterSend)
    /\ WF_vars(WriterCancelled)
    /\ WF_vars(TurnSingle)

SpecTeardown == Init /\ [][NextTeardown]_vars /\ FairTeardown

\* A model that keeps asking for a tool: one call in every round, answered by
\* the device with a result or an error, until the model has nothing to say or
\* the rounds run out.
TurnRounds ==
    \/ TurnRecv
    \/ \E r \in {"empty", "tools"} : TurnChat(r, FALSE, 1)
    \/ TurnRpcSend
    \/ TurnRpcWait
    \/ TurnSignal

NextRounds ==
    \/ \E id \in Ids, e \in BOOLEAN : WsMcpResponse(id, e, TRUE)
    \/ WsBinary(TRUE)
    \/ WsListenStop
    \/ SttSendResume
    \/ OnSttText
    \/ OnLlmFinished
    \/ OnRpc
    \/ SttStep("w")
    \/ WriterSend
    \/ TurnRounds

SpecRounds == Init /\ [][NextRounds]_vars

\* ------------------------------------------------------------- properties

\* Utterances handed to the turn worker whose completion signal the loop has not
\* consumed: waiting in the handoff channel, being processed, or finished with
\* the signal still in the control channel.
InFlight ==
    Len(llm_q) + (IF turn.pc # "idle" THEN 1 ELSE 0)
    + Cardinality({i \in 1..Len(control_q) : FromTurn(control_q[i])})

\* C1: at most one utterance is in flight at any instant: the loop hands no
\* second utterance over before the completion signal of the previous one has
\* been consumed.
C1_SingleFlight == InFlight <= 1

\* C2 as stated: a waiter that received a value received it from the response
\* with its id or from session teardown, and from nothing else.
C2_ResponseOrTeardown ==
    \A w \in 1..MaxCalls : waiter[w].by \in {"none", "response", "teardown"}

\* C2 amended: every waiter receives at most one value; a waiter is completed
\* by the response carrying its own id, by the loop's error when its request
\* could not be queued, or by teardown; a pending waiter is in the pending map
\* under its id, and no waiter is left queued or pending once the loop is gone.
C2_Correlation ==
    /\ \A w \in 1..MaxCalls :
         /\ waiter[w].n <= 1
         /\ (waiter[w].n = 1) <=> (waiter[w].st \in {"ok", "err", "closed", "taken"})
         /\ waiter[w].by \in {"none", "response", "full", "teardown"}
         /\ waiter[w].by = "response" => waiter[w].rid = waiter[w].id
         /\ (waiter[w].st = "pending") <=> (<<waiter[w].id, w>> \in pending_mcp_requests)
    /\ \A p \in pending_mcp_requests : p[2] \in 1..MaxCalls /\ waiter[p[2]].id = p[1]
    /\ loop_pc = "done" => \A w \in 1..MaxCalls : waiter[w].st \notin {"queued", "pending"}

\* A tools/call answered by the response with its id, once.
C2_Witness ==
    \E w \in 1..MaxCalls :
        /\ waiter[w].by = "response" /\ waiter[w].n = 1
        /\ waiter[w].rid = waiter[w].id /\ waiter[w].id > 0

\* What a text turn enqueues, in order.
TurnHead == <<"llm", "tts_start", "sentence_start">>

IsTurnPrefix(s) ==
    \A i \in 1..Len(s) :
        IF i <= 3 THEN s[i] = TurnHead[i]
        ELSE s[i] = "bin" \/ (s[i] = "tts_stop" /\ i = Len(s))

IsWholeTurn(s) == Len(s) >= 4 /\ IsTurnPrefix(s) /\ s[Len(s)] = "tts_stop"

\* C3 as stated: a turn whose answer was a non-empty text has enqueued, when it
\* ends, llm, tts start, tts sentence_start, the frames and tts stop.
C3_WholeSequence ==
    (turn.pc = "signal" /\ turn.kind = "text") => IsWholeTurn(turn.out)

\* C3 amended: what a text turn has enqueued is at every moment a prefix of llm,
\* tts start, tts sentence_start, frames, tts stop, with every frame after the
\* sentence_start and before the stop; the turn ends with the whole sequence
\* unless one of its sends failed, and then it enqueues nothing more.
C3_Order ==
    /\ IsTurnPrefix(turn.out)
    /\ turn.kind # "text" => turn.out = <<>>
    /\ (turn.pc = "signal" /\ turn.kind = "text" /\ ~turn.cut) => IsWholeTurn(turn.out)
    /\ turn.cut => turn.pc = "signal" /\ ~IsWholeTurn(turn.out)

\* A text turn that ended with the whole sequence, one frame included.
C3_Witness ==
    /\ turn.pc = "signal" /\ ~turn.cut
    /\ turn.out = <<"llm", "tts_start", "sentence_start", "bin", "tts_stop">>

\* C4: once a Listening session has been idle for max_idle_duration the standby
\* prompt is eventually started (unless new activity, a turn or the end of the
\* session comes first), and a session that started the prompt eventually
\* closes, whatever audio frames and pings arrive.
C4_IdleClose ==
    /\ (loop_pc # "done" /\ state_enum = "Listening" /\ idle_left <= 0)
           ~> (hist.spawned > 0 \/ loop_pc = "done" \/ idle_left > 0
               \/ state_enum # "Listening")
    /\ (hist.spawned > 0) ~> (loop_pc = "done")

\* C5: the standby utterance is spawned at most once in a session.
C5_StandbyOnce == hist.spawned <= 1

\* C6: the loop never waits in a channel send: it is at select! or gone.
C6_NoStall == loop_pc \in {"select", "done"}

\* C7: whenever the state is Processing there is a handed-off utterance whose
\* completion signal has not been consumed (or the hand-off is under way).
C7_ProcessingHasTurn ==
    (loop_pc # "done" /\ state_enum = "Processing")
        => (InFlight >= 1 \/ loop_pc = "send_llm")

\* C8: once the socket receiver has reached end-of-stream the loop has
\* terminated.
C8_EndOfStreamTerminates == ~ws_open => loop_pc = "done"

\* C9: when the loop ended on Sleep and the writer was stopped by the abort, a
\* Close frame has been written to the socket.
C9_CloseWritten ==
    (hist.exit = "sleep" /\ writer = "aborted") => hist.wire_close

\* C10: a step that handles Abort leaves the state Listening and the
\* transcript empty; and from an Abort until the next TextDelta, whatever is
\* handled (Listen stop included), the transcript stays empty, nothing is
\* handed to the turn worker and no hand-off is begun.
C10_Abort ==
    [][/\ (~hist.since_abort /\ hist.since_abort')
            => (state_enum' = "Listening" /\ accumulated_text' = "")
       /\ (hist.since_abort /\ hist.since_abort')
            => (/\ accumulated_text' = ""
                /\ Len(llm_q') <= Len(llm_q)
                /\ loop_pc' # "send_llm")]_vars

\* A Listen stop was handled after an Abort with no TextDelta in between: the
\* state is Processing and nothing was handed over.
C10_Witness ==
    /\ hist.since_abort /\ loop_pc = "select"
    /\ state_enum = "Processing" /\ accumulated_text = "" /\ llm_q = <<>>

\* The two most recent entries a reader of the device's history gets.
LastTwo(h) ==
    LET got == GetChatHistory(h, MaxHistory)
    IN IF Len(got) >= 2 THEN SubSeq(got, Len(got) - 1, Len(got)) ELSE got

\* C11: when a turn of this session has written its user entry and then its
\* model entry, a reader of the device's history gets these two as the most
\* recent entries, the user entry right before the model entry, whatever other
\* sessions of the device do meanwhile.
C11_RoundTrip ==
    [][(turn.pc = "save_model" /\ turn'.pc = "tts_start" /\ turn'.saved = 2)
          => LastTwo(chat_history') = <<[role |-> "user", by |-> 1],
                                        [role |-> "model", by |-> 1]>>]_vars

\* C12 as stated: handling EndOfUtterance refreshes last_activity, as handling
\* a TextDelta does.
C12_NoSpeechRefreshes == [][OnSttNoSpeech => idle_left' = MaxIdle]_vars

\* C12 amended: a text frame, a TextDelta and LlmFinished set last_activity to
\* now; EndOfUtterance, a binary frame, a Ping and the completion of a channel
\* send leave it as it was.
C12_Activity ==
    [][/\ (WsListenStop \/ OnSttText \/ OnLlmFinished) => idle_left' = MaxIdle
       /\ (OnSttNoSpeech \/ (\E d \in BOOLEAN : WsBinary(d)) \/ WsPing
           \/ SttSendResume \/ LlmSendResume)
            => idle_left' = idle_left]_vars

\* A binary frame, a Ping or an EndOfUtterance was handled after part of the idle
\* period had passed, and the deadline is where it was.
C12_Witness ==
    /\ hist.kept \in {"binary", "dropped", "ping", "no_speech"}
    /\ idle_left < MaxIdle /\ loop_pc # "done"

\* C13: a binary frame handled while the state is Processing puts nothing on
\* the recognizer's queue and leaves the state, the transcript, last_activity,
\* the pending map and the tool catalogue as they were.
C13_DroppedInProcessing ==
    [][(state_enum = "Processing" /\ \E d \in BOOLEAN : WsBinary(d))
          => UNCHANGED <<stt_audio, loop_pc, state_enum, accumulated_text, idle_left,
                         is_standby, pending_mcp_requests, mcp_tools, mcp_state>>]_vars

\* A binary frame was dropped in Processing, with room in the recognizer's queue.
C13_Witness ==
    /\ hist.kept = "dropped" /\ state_enum = "Processing" /\ loop_pc = "select"
    /\ stt_alive /\ stt_audio < SttAudioCap

\* C14: Listen, Abort and audio are processed only after a client Hello has been
\* received: whenever the loop handles one of them, a Hello was handled before.
C14_HelloFirst ==
    [][(WsListenStart \/ WsAbort \/ \E d \in BOOLEAN : WsBinary(d)) => hist.hello]_vars

\* C15: each client Hello is answered by exactly one server Hello: handling a
\* Hello appends one "hello" to the outbound queue, ahead of whatever else the
\* Hello causes.
C15_OneHello ==
    [][(\E mcp \in BOOLEAN : WsHello(mcp)) => out_q' = Append(out_q, "hello")]_vars

\* C16: the discovery state never goes back from Ready to Initializing, the
\* initialize request carries id 1, tools/list is requested at most once in a
\* session, and only when the response to the initialize request arrives.
C16_Discovery ==
    [][/\ ~(mcp_state = "Ready" /\ mcp_state' = "Initializing")
       /\ hist'.init_id \in {0, 1}
       /\ hist'.lists <= 1
       /\ \A id \in Ids, e \in BOOLEAN, tools \in BOOLEAN :
             (WsMcpResponse(id, e, tools) /\ hist'.lists > hist.lists)
                => (id = hist.init_id /\ mcp_state' = "Ready")]_vars

\* C17: once the Outbound Writer has stopped on a send error, the next handler
\* of the Session Loop that sends (Hello, Stt, Pong) breaks the loop.
C17_ClosedBreaks ==
    [][(writer = "failed" /\ ((\E mcp \in BOOLEAN : WsHello(mcp)) \/ OnSttText \/ WsPing))
          => loop_pc' = "done"]_vars

\* process_text_logic has returned because one of its text sends failed: a cut
\* turn with no frame left unsent (a frame that fails stays counted).
TextSendFailed == turn.pc = "signal" /\ turn.cut /\ turn.frames = 0

\* C18: a failed text send inside a turn is fatal to the session: such a turn
\* does not hand the running loop the LlmFinished signal, which takes the
\* session back to Listening.
C18_TextSendFatal ==
    [][(TextSendFailed /\ loop_pc # "done" /\ TurnSignal)
          => control_q' # Append(control_q, "LlmFinished")]_vars

C20_ModelFault ==
    /\ [][TurnChat("err", FALSE, 0)
             => /\ turn'.pc = "signal" /\ turn'.kind = "err" /\ ~turn'.result
                /\ UNCHANGED <<out_q, chat_history, control_q>>]_vars
    /\ [](turn.kind = "err" => turn.pc = "signal" /\ turn.out = <<>> /\ turn.saved = 0)
    /\ [][(turn.kind = "err" /\ turn' # turn)
             => /\ turn' = IdleTurn
                /\ UNCHANGED <<out_q, chat_history>>
                /\ loop_pc # "done" => control_q' = Append(control_q, "LlmFinished")]_vars
    /\ [][OnLlmFinished
             => state_enum' = "Listening" /\ idle_left' = MaxIdle /\ ~is_standby']_vars

\* The model call of a handed-off utterance has failed and the worker is about
\* to signal the loop, which is still in Processing.
C20_Witness ==
    /\ turn.kind = "err" /\ turn.pc = "signal"
    /\ state_enum = "Processing" /\ loop_pc = "select"
    /\ out_q = <<>> /\ chat_history = <<>>

\* C21: a tools/call whose response never arrives is eventually completed all
\* the same: a waiter pending in the loop's map does not stay pending for ever.
C21_RpcCompletes ==
    \A w \in 1..MaxCalls : (waiter[w].st = "pending") ~> (waiter[w].st # "pending")

\* C22: once the loop has exited no reply slot is pending in the map or queued
\* towards the loop (each was released, and its waiter sees an error), and the
\* turn worker and the recognition task eventually come to rest: the worker
\* with nothing left to receive, the recognizer ended.
C22_Teardown ==
    /\ [](loop_pc = "done"
            => /\ pending_mcp_requests = {} /\ rpc_q = <<>>
               /\ \A w \in 1..MaxCalls :
                     /\ waiter[w].st \notin {"queued", "pending"}
                     /\ waiter[w].by = "teardown" => waiter[w].st = "closed")
    /\ (loop_pc = "done") ~> [](turn.pc = "idle" /\ llm_q = <<>> /\ ~stt_alive)

\* The loop has exited while the turn worker waited for a tool response, and
\* the worker has not yet looked at its released slot.
C22_Witness ==
    /\ loop_pc = "done" /\ turn.pc = "rpc_wait"
    /\ waiter[turn.w].st = "closed" /\ waiter[turn.w].by = "teardown"

\* C23: the Rpc handler never waits.  A tools/call request that finds room is
\* appended to the outbound queue and its reply slot is kept in the map under
\* the request's id; one that finds the queue full (or closed) is not queued,
\* its slot receives an error at once and the map is left as it was.  So every
\* slot in the map belongs to a request that was queued.
C23_EnqueueFailure ==
    [][OnRpc =>
         LET w == Head(rpc_q)
             id == mcp_request_id_counter
         IN /\ loop_pc' = "select"
            /\ IF RxOpen /\ Len(out_q) < OutboundCap
               THEN /\ out_q' = Append(out_q, "mcp")
                    /\ pending_mcp_requests' = pending_mcp_requests \cup {<<id, w>>}
                    /\ waiter'[w].st = "pending" /\ waiter'[w].n = 0
               ELSE /\ out_q' = out_q
                    /\ pending_mcp_requests' = pending_mcp_requests
                    /\ \A p \in pending_mcp_requests' : p[1] # id
                    /\ waiter'[w].st = "err" /\ waiter'[w].by = "full"
                    /\ waiter'[w].n = 1]_vars

\* A tools/call found the outbound queue full: its slot holds the error, the
\* map holds nothing for it and the loop is back at select!.
C23_Witness ==
    \E w \in 1..MaxCalls :
        /\ waiter[w].st = "err" /\ waiter[w].by = "full"
        /\ \A p \in pending_mcp_requests : p[2] # w
        /\ loop_pc = "select" /\ writer = "running" /\ Len(out_q) = OutboundCap

\* C24: the model is invoked at most MAX_LOOPS times in a turn; a turn that
\* comes back for a further round after MAX_LOOPS invocations returns false
\* without invoking it, having enqueued no message of its own and persisted no
\* history, and its next and only step hands LlmFinished to the running loop.
C24_LoopCap ==
    /\ [](turn.loop_count <= MAX_LOOPS)
    /\ [][(turn.pc = "chat" /\ turn.loop_count = MAX_LOOPS /\ turn' # turn)
             => /\ turn'.kind = "cap" /\ turn'.loop_count = MAX_LOOPS
                /\ UNCHANGED <<out_q, rpc_q, chat_history, control_q>>]_vars
    /\ [](turn.kind = "cap"
            => /\ turn.pc = "signal" /\ ~turn.result
               /\ turn.out = <<>> /\ turn.saved = 0)
    /\ [][(turn.kind = "cap" /\ turn' # turn)
             => /\ turn' = IdleTurn
                /\ UNCHANGED <<out_q, chat_history>>
                /\ loop_pc # "done" => control_q' = Append(control_q, "LlmFinished")]_vars

\* A turn that left the dialog loop at the cap: MAX_LOOPS invocations, each
\* answered with a tool call, and the session has issued as many tools/call.
C24_Witness ==
    /\ turn.kind = "cap" /\ turn.pc = "signal"
    /\ turn.loop_count = MAX_LOOPS /\ hist.issued = MAX_LOOPS

\* What a round has pushed so far is the assistant message with its k >= 1
\* calls followed by tool messages for calls 1, 2, .. in order, each with the
\* id of its call and no calls of its own.
IsRoundPrefix(ext) ==
    ext # <<>> =>
        /\ ext[1].role = "assistant" /\ ext[1].calls >= 1
        /\ Len(ext) <= 1 + ext[1].calls
        /\ \A i \in 2..Len(ext) :
              /\ ext[i].role = "tool" /\ ext[i].id = i - 1 /\ ext[i].calls = 0
              /\ ext[i].content \in {"result", "error"}

\* C25: a ToolCall response with k calls extends the message list by the
\* assistant message carrying the k calls; every reply the worker receives, a
\* result or an error (from the device, or from the loop when the request
\* could not be queued), extends it by the tool message of the call at hand
\* and the turn goes on; and when the model is invoked again the extension is
\* the assistant message and exactly k tool messages in call order.
C25_ToolMessages ==
    /\ [](IsRoundPrefix(turn.ext))
    /\ [](turn.pc \in {"rpc_send", "rpc_wait"}
            => turn.ext # <<>> /\ Len(turn.ext) = 1 + turn.ext[1].calls - turn.calls)
    /\ []((turn.pc = "chat" /\ turn.ext # <<>>)
            => Len(turn.ext) = 1 + turn.ext[1].calls)
    /\ [][\A k \in 1..DialogCalls :
             (turn.loop_count < MAX_LOOPS /\ TurnChat("tools", FALSE, k))
                => turn'.ext = <<AssistantMessage(k)>>]_vars
    /\ [][(TurnRpcWait /\ waiter[turn.w].st \in {"ok", "err"})
             => /\ turn'.pc \in {"rpc_send", "chat"}
                /\ Len(turn'.ext) = Len(turn.ext) + 1
                /\ SubSeq(turn'.ext, 1, Len(turn.ext)) = turn.ext
                /\ turn'.ext[Len(turn'.ext)].content
                     = (IF waiter[turn.w].st = "ok" THEN "result" ELSE "error")]_vars

\* The model is about to be invoked again after a round of two calls, the
\* first answered with an error and the second with a result.
C25_Witness ==
    /\ turn.pc = "chat" /\ Len(turn.ext) = 3
    /\ turn.ext[1].calls = 2
    /\ turn.ext[2].content = "error" /\ turn.ext[3].content = "result"

\* C26: the worker takes an utterance only from the handoff channel, and
\* whatever way process_text_logic ends, the worker leaves the utterance by one
\* step that hands the running loop one signal, Sleep if the function returned
\* true and LlmFinished otherwise; no other step puts a signal in the control
\* channel, and once the function has returned the worker enqueues nothing.
C26_OneSignal ==
    /\ [][(turn.pc = "idle" /\ turn'.pc # "idle")
             => (llm_q # <<>> /\ llm_q' = Tail(llm_q))]_vars
    /\ [][(turn.pc # "idle" /\ turn'.pc = "idle")
             => /\ turn.pc = "signal"
                /\ loop_pc # "done"
                     => control_q' = Append(control_q, IF turn.result THEN "Sleep"
                                                                      ELSE "LlmFinished")]_vars
    /\ [][(Len(control_q') > Len(control_q) /\ FromTurn(control_q'[Len(control_q')]))
             => /\ turn.pc = "signal" /\ turn'.pc = "idle"
                /\ Len(control_q') = Len(control_q) + 1]_vars
    /\ [][(turn.pc = "signal" /\ turn' # turn)
             => UNCHANGED <<out_q, rpc_q, chat_history>>]_vars

\* The worker has signalled LlmFinished for a spoken turn: the signal waits in
\* the control channel and the turn's Tts stop is the last message enqueued.
C26_Witness ==
    /\ turn.pc = "idle" /\ control_q = <<"LlmFinished">>
    /\ out_q # <<>> /\ out_q[Len(out_q)] = "tts_stop"
    /\ state_enum = "Processing" /\ loop_pc = "select"

\* An idle period that ends in a turn: the idle deadline passes and the standby
\* prompt is spawned while the device can still stream speech, at the pace of
\* the recognizer, that is recognized and answered with text; a reply takes less
\* than a tick.
NextPrompt ==
    \/ stt_audio = 0 /\ stt_events = <<>> /\ WsBinary(TRUE)
    \/ WsListenStop
    \/ OnSttText
    \/ OnLlmFinished
    \/ OnSleep
    \/ OnTimer
    \/ turn.pc = "idle" /\ Tick
    \/ SttStep("w")
    \/ WriterSend
    \/ SbSend(1)
    \/ SbSpeak(1, MaxFrames)
    \/ SbSignal(1)
    \/ TurnRecv
    \/ TurnChat("text", FALSE, 0)
    \/ TurnSendText
    \/ TurnSave(TRUE)
    \/ TurnSpeak(TRUE, MaxFrames)
    \/ TurnSendFrame
    \/ TurnSignal

SpecPrompt == Init /\ [][NextPrompt]_vars

\* The standby prompt of task i has its Tts start enqueued and its Tts stop not.
SbOpen(i) == standby[i].pc \in {"sentence", "speak", "frames", "stop"}

\* The reply of the turn has its Tts start enqueued and its Tts stop not.
TurnOpen == turn.pc \in {"sentence_start", "speak", "frames", "tts_stop"}

\* C27: utterances do not overlap on the outbound queue: while the start..stop
\* window of a standby prompt is open, the window of a turn reply or of another
\* standby prompt is not.
C27_OneUtterance ==
    \A i \in 1..MaxStandby :
        SbOpen(i) => /\ ~TurnOpen
                     /\ \A j \in 1..MaxStandby : SbOpen(j) => j = i

\* A day passes in one iteration of the loop: the sleep of the Processing state,
\* Duration::from_secs(3600 * 24), runs out while the turn is still at work.
LongTurn ==
    /\ AtSelect
    /\ sleep_left = Far
    /\ sleep_left' = 0
    /\ idle_left' = 0 - MaxOver
    /\ hist' = [hist EXCEPT !.kept = "none"]
    /\ UNCHANGED <<loop_pc, state_enum, accumulated_text, is_standby, mcpVars, ws_open,
                   chanVars, taskVars>>
    /\ UNCHANGED dbVars

\* The failing model again, with turns that can outlast the Processing sleep.
NextLong ==
    \/ NextFault
    \/ LongTurn

SpecLong == Init /\ [][NextLong]_vars

\* C28: a step that spawns the standby task, or sets the standby flag, is taken
\* in a state other than Processing, also when the sleep of the Processing state
\* has run out.
C28_NoPromptInProcessing ==
    [][(standby' # standby /\ hist.spawned' # hist.spawned) \/ (is_standby' /\ ~is_standby)
         => state_enum # "Processing"]_vars

\* The timer has run out in Processing, the worker still in the model call, the
\* standby flag clear and the idle deadline long past.
C28_Witness ==
    /\ state_enum = "Processing" /\ loop_pc = "select" /\ sleep_left = 0
    /\ ~is_standby /\ idle_left < 0 /\ turn.pc = "chat"

\* ------------------------------------------------------------ paced audio

\* frame_duration, cache_frame_count and the play-out delay after the last
\* frame, in milliseconds and frames.
FrameDuration == 60
CacheFrameCount == 2
StopDelay == 500

\* The frames state.tts.speak returns, in the synthesizer's order.
AudioFrames == <<"a1", "a2", "a3", "a4", "a5", "a6">>
Audio(n) == SubSeq(AudioFrames, 1, n)

\* The longest time the clock of a paced reply is followed.
MaxElapsed == FrameDuration * PacedFrames + StopDelay + Quantum

\* Ok(frames) with n frames: start_time = Instant::now(), total_frames = 0.
PacedSpeak(n) ==
    /\ turn.pc = "speak"
    /\ turn' = [turn EXCEPT !.pc = IF n > 0 THEN "frames" ELSE "pace_end",
                            !.frames = n, !.total_frames = 0, !.elapsed = 0]
    /\ UNCHANGED <<turnFrame, llm_q, control_q, rpc_q, out_q, waiter, hist>>
    /\ UNCHANGED dbVars

\* A frame loop that paces against frame_duration * total_frames, one window
\* of cache_frame_count frames too early.
PacedFrame_NoWindow ==
    /\ turn.pc = "frames"
    /\ turn.total_frames >= CacheFrameCount
          => turn.elapsed >= FrameDuration * (turn.total_frames - 2 * CacheFrameCount)
    /\ \/ /\ CanSend
          /\ LET frame == Audio(turn.total_frames + turn.frames)[turn.total_frames + 1]
             IN /\ out_q' = Append(out_q, frame)
                /\ turn' = [turn EXCEPT !.out = Append(@, frame), !.frames = @ - 1,
                                        !.total_frames = @ + 1,
                                        !.pc = IF turn.frames = 1 THEN "pace_end"
                                               ELSE "frames"]
       \/ /\ SendFails
          /\ turn' = [Return(FALSE) EXCEPT !.cut = TRUE]
          /\ UNCHANGED out_q
    /\ UNCHANGED <<turnFrame, llm_q, control_q, rpc_q, waiter, hist>>
    /\ UNCHANGED dbVars

\* One iteration of 'for frame in frames': from the third frame on the sleep
\* up to start_time + frame_duration * (total_frames - cache_frame_count), which
\* is over or was not needed when the step is taken, then the frame by
\* send_message_safe and total_frames += 1; a failed send aborts the turn.
PacedFrame ==
    /\ turn.pc = "frames"
    /\ turn.total_frames >= CacheFrameCount
          => turn.elapsed >= FrameDuration * (turn.total_frames - CacheFrameCount)
    /\ \/ /\ CanSend
          /\ LET frame == Audio(turn.total_frames + turn.frames)[turn.total_frames + 1]
             IN /\ out_q' = Append(out_q, frame)
                /\ turn' = [turn EXCEPT !.out = Append(@, frame), !.frames = @ - 1,
                                        !.total_frames = @ + 1,
                                        !.pc = IF turn.frames = 1 THEN "pace_end"
                                               ELSE "frames"]
       \/ /\ SendFails
          /\ turn' = [Return(FALSE) EXCEPT !.cut = TRUE]
          /\ UNCHANGED out_q
    /\ UNCHANGED <<turnFrame, llm_q, control_q, rpc_q, waiter, hist>>
    /\ UNCHANGED dbVars

\* After the loop: the sleep up to total_duration = frame_duration * total_frames
\* is over or was not needed; the 500 ms sleep starts now.
PacedRest ==
    /\ turn.pc = "pace_end"
    /\ turn.elapsed >= FrameDuration * turn.total_frames
    /\ turn' = [turn EXCEPT !.pc = "pace_tail", !.deadline = turn.elapsed + StopDelay]
    /\ UNCHANGED <<turnFrame, llm_q, control_q, rpc_q, out_q, waiter, hist>>
    /\ UNCHANGED dbVars

\* tokio::time::sleep(Duration::from_millis(500)) is over: on to Tts stop.
PacedDelay ==
    /\ turn.pc = "pace_tail"
    /\ turn.elapsed >= turn.deadline
    /\ turn' = [turn EXCEPT !.pc = "tts_stop"]
    /\ UNCHANGED <<turnFrame, llm_q, control_q, rpc_q, out_q, waiter, hist>>
    /\ UNCHANGED dbVars

\* Time passes while the reply is paced.
PaceTick ==
    /\ turn.pc \in {"frames", "pace_end", "pace_tail"}
    /\ turn.elapsed < MaxElapsed
    /\ turn' = [turn EXCEPT !.elapsed = @ + Quantum]
    /\ UNCHANGED <<turnFrame, llm_q, control_q, rpc_q, out_q, waiter, hist>>
    /\ UNCHANGED dbVars

\* One spoken reply after another, on the clock: the synthesizer returns up to
\* PacedFrames frames or fails.  The device sends one chunk of speech, stops
\* listening when it has the transcript and is quiet while the reply is made.
Quiet == turn.pc = "idle" /\ llm_q = <<>> /\ stt_audio = 0 /\ stt_events = <<>>

NextPaced ==
    \/ Quiet /\ accumulated_text = "" /\ WsBinary(TRUE)
    \/ Quiet /\ WsListenStop
    \/ OnSttText
    \/ OnLlmFinished
    \/ OnSleep
    \/ SttStep("w")
    \/ WriterSend
    \/ TurnRecv
    \/ \E sl \in BOOLEAN : TurnChat("text", sl, 0)
    \/ TurnSendText
    \/ TurnSave(TRUE)
    \/ TurnSpeak(FALSE, 0)
    \/ \E n \in 0..PacedFrames : PacedSpeak(n)
    \/ PacedFrame
    \/ PacedRest
    \/ PacedDelay
    \/ PaceTick
    \/ TurnSignal

SpecPaced == Init /\ [][NextPaced]_vars

\* The frames among the messages s.
FramesOf(s) == SelectSeq(s, LAMBDA m : m \in {AudioFrames[i] : i \in 1..Len(AudioFrames)})

\* C29: with elapsed the time since pacing started: a step that enqueues frame
\* i >= 2 (counted from 0) is taken at elapsed >= 60 ms * (i - 2), frames 0 and 1
\* have no such condition; the frames enqueued so far are the first ones of the
\* synthesizer's list, in its order; and the Tts stop of a paced reply of n
\* frames is enqueued at elapsed >= 60 ms * n + 500 ms.
C29_Pacing ==
    /\ [][(turn.pc = "frames" /\ turn' # turn /\ Len(out_q') > Len(out_q))
             => /\ turn.total_frames >= 2
                     => turn.elapsed >= FrameDuration * (turn.total_frames - 2)
                /\ out_q' = Append(out_q, Audio(turn.total_frames + 1)[turn.total_frames + 1])]_vars
    /\ [](turn.pc \in {"frames", "pace_end", "pace_tail", "tts_stop"}
             => FramesOf(turn.out) = Audio(turn.total_frames))
    /\ [][(turn.pc = "tts_stop" /\ turn.deadline > 0 /\ out_q' = Append(out_q, "tts_stop"))
             => turn.elapsed >= FrameDuration * turn.total_frames + StopDelay]_vars

\* The fourth frame of a reply went out 60 ms after pacing started and the
\* reply's Tts stop is enqueued.
C29_Witness ==
    /\ turn.pc = "signal" /\ turn.total_frames >= 4 /\ ~turn.cut
    /\ turn.out[Len(turn.out)] = "tts_stop"
    /\ turn.elapsed = FrameDuration * turn.total_frames + StopDelay

\* The tool protocol from the handshake on: one Hello with features.mcp, the
\* device's responses under any id, and turns whose model asks for one tool
\* call at a time while audio and transcripts compete for the outbound queue.
NextIds ==
    \/ ~hist.hello /\ WsHello(TRUE)
    \/ WsHelloInitialize
    \/ \E id \in Ids, e \in BOOLEAN : WsMcpResponse(id, e, TRUE)
    \/ Quiet /\ accumulated_text = "" /\ WsBinary(TRUE)
    \/ Quiet /\ WsListenStop
    \/ OnSttText
    \/ OnLlmFinished
    \/ OnRpc
    \/ SttStep("w")
    \/ WriterSend
    \/ TurnSingle

SpecIds == Init /\ [][NextIds]_vars

\* C30: the ids given to the requests of the session are 1, 2, 3, .. in the
\* order the requests were built, the counter holds the next one, whether or
\* not a request was queued, and every id of the pending map has been given.
C30_RequestIds ==
    /\ hist.ids = [i \in 1..(mcp_request_id_counter - 1) |-> i]
    /\ \A p \in pending_mcp_requests : p[1] < mcp_request_id_counter
    /\ \A w \in 1..MaxCalls : waiter[w].st # "unused" /\ waiter[w].id # 0
            => waiter[w].id < mcp_request_id_counter

\* The initialize and the tools/list request got the ids 1 and 2; the first
\* tools/call request got the id 3, found the outbound queue full and its
\* waiter has the error; the counter stands at 4 and nothing is pending.
C30_Witness ==
    /\ hist.init_id = 1 /\ hist.lists = 1 /\ mcp_request_id_counter = 4
    /\ waiter[1].by = "full" /\ waiter[1].id = 3
    /\ hist.ids = <<1, 2, 3>> /\ pending_mcp_requests = {}

\* C31: the catalogue is empty at the start and a step that changes it handles
\* the response that carries the id of the tools/list request; a response that
\* matches a pending tools/call changes neither the catalogue nor the
\* discovery state.
C31_Catalogue ==
    /\ (mcp_state = "Disabled" => ~mcp_tools)
    /\ [][(mcp_tools' # mcp_tools)
              => (\A id \in Ids, e \in BOOLEAN, tools \in BOOLEAN :
                     WsMcpResponse(id, e, tools) => id = hist.list_id)]_vars
    /\ [][\A id \in Ids, e \in BOOLEAN, tools \in BOOLEAN :
             (Lookup(id) # {} /\ WsMcpResponse(id, e, tools))
                => UNCHANGED <<mcp_tools, mcp_state>>]_vars

\* The turn got no audio and did not pace: the synthesizer failed.
Unspoken(t) == t.frames = 0 /\ t.total_frames = 0 /\ t.deadline = 0

\* C32: when the synthesizer fails, the turn goes on to Tts stop with nothing
\* enqueued in between; the stop is enqueued as soon as the queue takes it, after
\* which the function returns should_sleep as after a spoken reply; and the
\* worker's signal for such a turn is LlmFinished unless a sleep was asked for.
C32_SynthesizerFault ==
    /\ [][TurnSpeak(FALSE, 0)
             => (turn'.pc = "tts_stop" /\ Unspoken(turn') /\ turn'.out = turn.out
                 /\ UNCHANGED out_q)]_vars
    /\ [][(turn.pc = "tts_stop" /\ Unspoken(turn) /\ turn' # turn /\ CanSend)
             => /\ out_q' = Append(out_q, "tts_stop")
                /\ turn'.pc = "signal" /\ turn'.result = turn.should_sleep
                /\ FramesOf(turn'.out) = <<>> /\ "bin" \notin {turn'.out[i] : i \in 1..Len(turn'.out)}]_vars
    /\ [][(turn.pc = "signal" /\ Unspoken(turn) /\ ~turn.cut /\ turn.kind = "text"
            /\ turn' # turn /\ loop_pc # "done")
             => control_q' = Append(control_q, IF turn.should_sleep THEN "Sleep"
                                                                  ELSE "LlmFinished")]_vars

\* The function has returned from a reply whose synthesis failed (no pacing
\* took place): Llm, Tts start, sentence_start and Tts stop went out, no frame
\* did, and the loop is running.
C32_Witness ==
    /\ turn.pc = "signal" /\ Unspoken(turn) /\ ~turn.cut /\ ~turn.result
    /\ turn.out = <<"llm", "tts_start", "sentence_start", "tts_stop">>
    /\ loop_pc = "select" /\ state_enum = "Processing"

\* C33: the worker's signal for a turn is Sleep exactly when the model's Text
\* of that turn held the [SLEEP] marker, and LlmFinished otherwise.
C33_SleepSignal ==
    [][(turn.pc = "signal" /\ turn' # turn /\ loop_pc # "done")
         => (control_q' = Append(control_q, "Sleep") <=> turn.should_sleep)]_vars

\* ------------------------------------------- Recognition bridge: re-chunker

\* PCM samples: silence (0) and one other value.
Samples == 0..1

\* The chunks the input stream can yield: every length up to MaxChunkLen, the
\* empty chunk included.
Chunks == UNION {[1..n -> Samples] : n \in 0..MaxChunkLen}

\* while buffer.len() >= chunk_size { yield buffer.drain(0..chunk_size) }: the
\* chunks yielded and the buffer that is left.
RECURSIVE Drain(_, _)
Drain(buffer, out) ==
    IF Len(buffer) >= ChunkSize
    THEN Drain(SubSeq(buffer, ChunkSize + 1, Len(buffer)),
               Append(out, SubSeq(buffer, 1, ChunkSize)))
    ELSE [buffer |-> buffer, out |-> out]

\* Vec::resize(new_len, value): truncated, or extended by copies of value.
Resize(v, new_len, value) ==
    [i \in 1..new_len |-> IF i <= Len(v) THEN v[i] ELSE value]

\* input.next() yields Some(chunk): the chunk is appended to the buffer and
\* every full chunk is drained from its front.
ChunkFeed(chunk) ==
    /\ ~svc.ended
    /\ Len(svc.input) + Len(chunk) <= MaxSamples
    /\ LET d == Drain(svc.buffer \o chunk, svc.yielded)
       IN svc' = [svc EXCEPT !.buffer = d.buffer,
                             !.yielded = d.out,
                             !.input = @ \o chunk]
    /\ UNCHANGED <<loopVars, mcpVars, ws_open, chanVars, taskVars, chat_history, peer, hist>>

\* An end of stream that yields what is left without padding it.
ChunkEnd_NoPad ==
    /\ ~svc.ended
    /\ svc' = [svc EXCEPT !.buffer = <<>>,
                          !.yielded = IF svc.buffer # <<>>
                                      THEN Append(@, svc.buffer)
                                      ELSE @,
                          !.ended = TRUE]
    /\ UNCHANGED <<loopVars, mcpVars, ws_open, chanVars, taskVars, chat_history, peer, hist>>

\* input.next() yields None: a non-empty rest is padded with zeros to one
\* chunk and yielded, and the stream ends.
ChunkEnd ==
    /\ ~svc.ended
    /\ svc' = [svc EXCEPT !.buffer = <<>>,
                          !.yielded = IF svc.buffer # <<>>
                                      THEN Append(@, Resize(svc.buffer, ChunkSize, 0))
                                      ELSE @,
                          !.ended = TRUE]
    /\ UNCHANGED <<loopVars, mcpVars, ws_open, chanVars, taskVars, chat_history, peer, hist>>

NextChunk ==
    \/ \E chunk \in Chunks : ChunkFeed(chunk)
    \/ ChunkEnd

SpecChunk == Init /\ [][NextChunk]_vars

\* The samples of a sequence of chunks, in order.
RECURSIVE Flatten(_)
Flatten(cs) == IF cs = <<>> THEN <<>> ELSE Head(cs) \o Flatten(Tail(cs))

\* C34: every chunk the re-chunker yields has exactly ChunkSize samples; while
\* the input lasts the yielded samples followed by the buffered ones are the
\* input samples, in order; once the input has ended the yielded samples are
\* the input samples followed by fewer than ChunkSize zeros; and an input
\* without samples yields no chunk.
C34_Rechunk ==
    /\ \A i \in DOMAIN svc.yielded : Len(svc.yielded[i]) = ChunkSize
    /\ ~svc.ended => Flatten(svc.yielded) \o svc.buffer = svc.input
    /\ svc.ended =>
          LET pad == Len(Flatten(svc.yielded)) - Len(svc.input)
          IN /\ pad \in 0..(ChunkSize - 1)
             /\ Flatten(svc.yielded) = svc.input \o [i \in 1..pad |-> 0]
    /\ (svc.ended /\ svc.input = <<>>) => svc.yielded = <<>>

\* The input ended one sample past a full chunk: a drained chunk and a padded
\* one were yielded.
C34_Witness ==
    /\ svc.ended
    /\ Len(svc.input) = ChunkSize + 1
    /\ Len(svc.yielded) = 2
    /\ svc.yielded[2][1] = 1

\* ------------------------------------------------------- History stores

Devices == {"d1", "d2"}
\* A stored message, known by its role.
Roles == {"user", "model"}
Limits == 0..(MaxStored + 1)

Ok(messages) == [ok |-> TRUE, messages |-> messages]
Err == [ok |-> FALSE, messages |-> <<>>]

\* InMemoryDb::get_chat_history: history[start..] of the device's vector, or
\* an empty vector for a device without one.
MemGet(device_id, limit) == Ok(GetChatHistory(svc.mem[device_id], limit))

\* The columns the inner SELECT of SqlDb::get_chat_history yields, and the
\* columns the outer SELECT orders by.
InnerColumns == {"role", "content", "created_at"}
OuterOrder == {"created_at", "id"}

\* The rows of a set ordered by created_at ASC, id ASC.
RECURSIVE Ascending(_)
Ascending(R) ==
    IF R = {} THEN <<>>
    ELSE LET first == CHOOSE r \in R :
                         \A q \in R : \/ r.created_at < q.created_at
                                      \/ r.created_at = q.created_at /\ r.id <= q.id
         IN <<first>> \o Ascending(R \ {first})

\* SqlDb::get_chat_history: the statement is prepared when it is run; a
\* column the outer SELECT names and the inner SELECT does not yield makes
\* the preparation fail ("no such column"), and the ? operator returns the
\* error. Otherwise the device's last limit rows by (created_at, id), oldest
\* first.
SqlGet(device_id, limit) ==
    IF ~(OuterOrder \subseteq InnerColumns)
    THEN Err
    ELSE LET mine == Ascending({svc.rows[i] : i \in {j \in DOMAIN svc.rows :
                                   svc.rows[j].device_id = device_id}})
         IN Ok([m \in DOMAIN GetChatHistory(mine, limit) |->
                   GetChatHistory(mine, limit)[m].role])

\* add_chat_history(device_id, role, content) on each store: a push onto the
\* device's vector, and an INSERT whose id is the next AUTOINCREMENT value and
\* whose created_at is the clock.
StoreAdd(device_id, role) ==
    /\ Len(svc.rows) < MaxStored
    /\ svc' = [svc EXCEPT !.mem[device_id] = Append(@, role),
                          !.rows = Append(@, [id |-> Len(svc.rows) + 1,
                                              device_id |-> device_id,
                                              role |-> role,
                                              created_at |-> svc.now])]
    /\ UNCHANGED <<loopVars, mcpVars, ws_open, chanVars, taskVars, chat_history, peer, hist>>

\* get_chat_history(device_id, limit) on each store.
StoreGet(device_id, limit) ==
    /\ svc' = [svc EXCEPT !.got = [device_id |-> device_id, limit |-> limit,
                                   mem |-> MemGet(device_id, limit),
                                   sql |-> SqlGet(device_id, limit)]]
    /\ UNCHANGED <<loopVars, mcpVars, ws_open, chanVars, taskVars, chat_history, peer, hist>>

\* A second passes.
StoreClock ==
    /\ svc.now < MaxClock
    /\ svc' = [svc EXCEPT !.now = @ + 1]
    /\ UNCHANGED <<loopVars, mcpVars, ws_open, chanVars, taskVars, chat_history, peer, hist>>

NextStore ==
    \/ \E device_id \in Devices, role \in Roles : StoreAdd(device_id, role)
    \/ \E device_id \in Devices, limit \in Limits : StoreGet(device_id, limit)
    \/ StoreClock

SpecStore == Init /\ [][NextStore]_vars

\* What process_text_logic makes of a get_chat_history result: the messages,
\* or none when the store returned an error.
History(result) == IF result.ok THEN result.messages ELSE <<>>

\* C35: after the same additions the in-memory store and the SQL store give
\* the turn the same history for the same device and limit.
C35_StoresAgree ==
    svc.got.device_id \in Devices => History(svc.got.sql) = History(svc.got.mem)

\* ------------------------------------------------------ One call at a time

\* C36: the pending-RPC map never holds more than one entry, and the entry it
\* holds is the call whose reply the turn worker is waiting for: a tools/call
\* is issued only after the reply to the previous one was received.
C36_OnePending ==
    /\ Cardinality(pending_mcp_requests) <= 1
    /\ \A p \in pending_mcp_requests :
          /\ turn.pc = "rpc_wait"
          /\ turn.w = p[2]
          /\ waiter[p[2]].st = "pending"

\* The second tools/call of a turn is outstanding, the first one answered.
C36_Witness ==
    /\ Cardinality(pending_mcp_requests) = 1
    /\ \E p \in pending_mcp_requests : p[1] = 2 /\ p[2] = 2
    /\ turn.pc = "rpc_wait"
    /\ Len(turn.ext) >= 2

\* ------------------------------------------------------------- One speech

\* One speech: the device streams audio while the session listens and then
\* stops listening, once; the recognizer yields the deltas and the end of the
\* utterance as it gets to them. The session is in Processing from the first
\* hand-off on, where audio is dropped, and the completion signal of a turn
\* is still to be handled: every transcript handed off is of this speech.
NextUtterance ==
    \/ state_enum = "Listening" /\ WsBinary(TRUE)
    \/ state_enum = "Listening" /\ WsListenStop
    \/ WsPing
    \/ SttSendResume
    \/ LlmSendResume
    \/ OnSttText
    \/ OnSttNoSpeech
    \/ \E evt \in {"w", "NoSpeech"} : SttStep(evt)
    \/ WriterSend
    \/ TurnRecv
    \/ TurnChat("err", FALSE, 0)
    \/ TurnSignal

SpecUtterance == Init /\ [][NextUtterance]_vars

\* Every hand-off passes the whole transcript and leaves it empty.
HandOffClears ==
    [][Len(llm_q') > Len(llm_q)
         => (llm_q' = Append(llm_q, accumulated_text) /\ accumulated_text' = "")]_vars

\* C37: the Listen stop and the end of utterance of one speech start at most
\* one turn between them (turns started: handed off or about to be, in
\* progress, or finished with the signal not yet handled).
C37_OneTurn == InFlight + (IF loop_pc = "send_llm" THEN 1 ELSE 0) <= 1

\* ------------------------------------------------------ A lagging recognizer

\* The recognizer lags behind an Abort: the device streams audio only while no
\* Abort has been handled since the last delta and nothing is transcribed or
\* handed off, and the loop gets to a delta only after it handled an Abort.
\* Every delta the loop appends is therefore of audio that the server received
\* before the Abort it handled last.
NextStale ==
    \/ /\ ~hist.since_abort /\ accumulated_text = "" /\ llm_q = <<>>
       /\ WsBinary(TRUE)
    \/ WsAbort
    \/ WsListenStop
    \/ WsPing
    \/ SttSendResume
    \/ hist.since_abort /\ OnSttText
    \/ OnSttNoSpeech
    \/ \E evt \in {"none", "w", "NoSpeech"} : SttStep(evt)
    \/ WriterSend

SpecStale == Init /\ [][NextStale]_vars

\* C38: text recognized from audio received before an Abort is not handed to
\* the turn worker after it (in this scenario: nothing is handed off, and no
\* hand-off is begun).
C38_NoStaleText == llm_q = <<>> /\ loop_pc # "send_llm"

\* --------------------------------------------------- After the idle timeout

\* A turn whose model call fails.
TurnErr ==
    \/ TurnRecv
    \/ TurnChat("err", FALSE, 0)
    \/ TurnSignal

\* A device that wakes up while the standby prompt plays: it sends text
\* messages, resumes listening, speaks and stops listening, at the pace of the
\* recognizer and of the turn worker.  The prompt plays within one idle period:
\* time is followed up to the spawn.
NextDoze ==
    \/ stt_audio = 0 /\ stt_events = <<>> /\ WsBinary(TRUE)
    \/ WsTextOther
    \/ WsListenStart
    \/ turn.pc = "idle" /\ llm_q = <<>> /\ WsListenStop
    \/ OnSttText
    \/ OnLlmFinished
    \/ OnSleep
    \/ OnTimer
    \/ hist.spawned = 0 /\ Tick
    \/ SttStep("w")
    \/ WriterSend
    \/ Standby
    \/ TurnErr

\* The scheduling the runtime gives: an event that is ready at select! is
\* handled, and the recognizer, the writer, the standby tasks and the turn
\* worker run; a task that waits for room in the control channel gets it when
\* a slot is freed again and again (the channel serves its waiting senders in
\* order).  What the device sends and how time passes is left open.
FairDoze ==
    /\ WF_vars(OnSleep)
    /\ WF_vars(OnLlmFinished)
    /\ WF_vars(OnSttText)
    /\ WF_vars(SttStep("w"))
    /\ WF_vars(WriterSend)
    /\ SF_vars(Standby)
    /\ WF_vars(TurnErr)

SpecDoze == Init /\ [][NextDoze]_vars /\ FairDoze

\* C39: once a standby utterance has been spawned the Session Loop ends.
C39_StandbyCloses == (hist.spawned > 0) ~> (loop_pc = "done")

\* The standby task's Sleep closed the session while a turn that started
\* during the prompt had it in Processing.
C39_Witness ==
    /\ loop_pc = "done" /\ hist.exit = "sleep"
    /\ hist.spawned = 1 /\ standby[1].pc = "end"
    /\ state_enum = "Processing"

\* ------------------------------------------------------ What a turn persists

\* Turns of every kind: the model fails, answers with text (blank after
\* cleaning or not) or asks for a tool, round after round; the device answers
\* the latest tool call or not and may disconnect; the store takes or refuses
\* an entry.
TurnAny ==
    \/ TurnRecv
    \/ \E r \in {"err", "text", "empty", "tools"}, sl \in BOOLEAN : TurnChat(r, sl, 1)
    \/ TurnRpcSend
    \/ TurnRpcWait
    \/ TurnSendText
    \/ \E ok \in BOOLEAN : TurnSave(ok)
    \/ TurnSpeak(FALSE, 0)
    \/ TurnSignal

NextPersist ==
    \/ Quiet /\ accumulated_text = "" /\ WsBinary(TRUE)
    \/ Quiet /\ WsListenStop
    \/ WsClose
    \/ \E id \in Ids, e \in BOOLEAN : id = hist.issued /\ WsMcpResponse(id, e, TRUE)
    \/ OnSttText
    \/ OnLlmFinished
    \/ OnRpc
    \/ SttStep("w")
    \/ Writer
    \/ TurnAny

SpecPersist == Init /\ [][NextPersist]_vars

\* C40: the store changes only in the two saving steps of a turn whose model
\* answered with text and whose llm message is the one thing it has enqueued;
\* the first of them adds the user entry and is reached from the successful
\* send of the llm message, the second adds the model entry and is reached
\* from the first; a turn that has enqueued no llm message has written nothing.
C40_HistoryWrites ==
    /\ [](turn.saved > 0 => (turn.kind = "text" /\ turn.out # <<>> /\ turn.out[1] = "llm"))
    /\ [][(chat_history' # chat_history)
             => /\ turn.pc \in {"save_user", "save_model"}
                /\ turn.kind = "text" /\ turn.out = <<"llm">>
                /\ chat_history' = AddChatHistory(chat_history,
                                       IF turn.pc = "save_user" THEN "user" ELSE "model", 1)]_vars
    /\ [][(turn.pc # "save_user" /\ turn'.pc = "save_user")
             => (turn.pc = "llm" /\ out_q' = Append(out_q, "llm"))]_vars
    /\ [][(turn.pc # "save_model" /\ turn'.pc = "save_model")
             => turn.pc = "save_user"]_vars

\* A turn that ran out of rounds left the entries of the text turn before it
\* as they were.
C40_Witness ==
    /\ turn.pc = "signal" /\ turn.kind = "cap" /\ turn.saved = 0
    /\ chat_history = <<[role |-> "user", by |-> 1], [role |-> "model", by |-> 1]>>

====
